---- MODULE Spec2Model ----
(***************************************************************************)
(* GravityCapture stage API: the OCR selection/merge controller            *)
(* (ocr/router.py), the tribe-log line stitcher and header parser          *)
(* (tribelog/parser.py), the event classifier (tribelog/classify.py), the  *)
(* v1 event hash and the insert-or-ignore event store (db.py), and the     *)
(* ingest endpoint that ties them together (api_main.py).                  *)
(*                                                                         *)
(* Text is modelled as TLA+ strings over printable ASCII; the regular      *)
(* expressions of the source are translated to a small backtracking        *)
(* matcher (Ends / Path below) that keeps Python's leftmost, priority-     *)
(* ordered (greedy / lazy) match semantics, so that capture groups are     *)
(* the ones the code sees.                                                 *)
(***************************************************************************)
EXTENDS Integers, Sequences, FiniteSets, TLC

(***************************************************************************)
(* Characters and strings                                                  *)
(***************************************************************************)
DIGITS == "0123456789"

Ch(s, i) == SubSeq(s, i, i)

UpperSet ==
    {"A", "B", "C", "D", "E", "F", "G", "H", "I", "J", "K", "L", "M",
     "N", "O", "P", "Q", "R", "S", "T", "U", "V", "W", "X", "Y", "Z"}
LowerSet ==
    {"a", "b", "c", "d", "e", "f", "g", "h", "i", "j", "k", "l", "m",
     "n", "o", "p", "q", "r", "s", "t", "u", "v", "w", "x", "y", "z"}
DigitSet == {"0", "1", "2", "3", "4", "5", "6", "7", "8", "9"}
\* \w of the re module, restricted to ASCII
WordSet ==
    {"A", "B", "C", "D", "E", "F", "G", "H", "I", "J", "K", "L", "M",
     "N", "O", "P", "Q", "R", "S", "T", "U", "V", "W", "X", "Y", "Z",
     "a", "b", "c", "d", "e", "f", "g", "h", "i", "j", "k", "l", "m",
     "n", "o", "p", "q", "r", "s", "t", "u", "v", "w", "x", "y", "z",
     "0", "1", "2", "3", "4", "5", "6", "7", "8", "9", "_"}
\* \s of the re module; the modelled alphabet holds the blank only
SpaceSet == {" "}

LowerCh(c) ==
    CASE c = "A" -> "a" [] c = "B" -> "b" [] c = "C" -> "c" [] c = "D" -> "d" [] c = "E" -> "e"
      [] c = "F" -> "f" [] c = "G" -> "g" [] c = "H" -> "h" [] c = "I" -> "i" [] c = "J" -> "j"
      [] c = "K" -> "k" [] c = "L" -> "l" [] c = "M" -> "m" [] c = "N" -> "n" [] c = "O" -> "o"
      [] c = "P" -> "p" [] c = "Q" -> "q" [] c = "R" -> "r" [] c = "S" -> "s" [] c = "T" -> "t"
      [] c = "U" -> "u" [] c = "V" -> "v" [] c = "W" -> "w" [] c = "X" -> "x" [] c = "Y" -> "y"
      [] c = "Z" -> "z"
      [] OTHER -> c

UpperCh(c) ==
    CASE c = "a" -> "A" [] c = "b" -> "B" [] c = "c" -> "C" [] c = "d" -> "D" [] c = "e" -> "E"
      [] c = "f" -> "F" [] c = "g" -> "G" [] c = "h" -> "H" [] c = "i" -> "I" [] c = "j" -> "J"
      [] c = "k" -> "K" [] c = "l" -> "L" [] c = "m" -> "M" [] c = "n" -> "N" [] c = "o" -> "O"
      [] c = "p" -> "P" [] c = "q" -> "Q" [] c = "r" -> "R" [] c = "s" -> "S" [] c = "t" -> "T"
      [] c = "u" -> "U" [] c = "v" -> "V" [] c = "w" -> "W" [] c = "x" -> "X" [] c = "y" -> "Y"
      [] c = "z" -> "Z"
      [] OTHER -> c

RECURSIVE StrLower(_)
\* str.lower()
StrLower(s) == IF s = "" THEN "" ELSE LowerCh(Head(s)) \o StrLower(Tail(s))

RECURSIVE StrUpper(_)
\* str.upper()
StrUpper(s) == IF s = "" THEN "" ELSE UpperCh(Head(s)) \o StrUpper(Tail(s))

RECURSIVE LStrip(_, _)
\* str.lstrip(chars)
LStrip(s, cs) == IF s # "" /\ Head(s) \in cs THEN LStrip(Tail(s), cs) ELSE s

RECURSIVE RStrip(_, _)
\* str.rstrip(chars)
RStrip(s, cs) ==
    IF s # "" /\ Ch(s, Len(s)) \in cs THEN RStrip(SubSeq(s, 1, Len(s) - 1), cs) ELSE s

\* str.strip()
Strip(s) == RStrip(LStrip(s, SpaceSet), SpaceSet)

\* str.strip(chars)
StripChars(s, cs) == RStrip(LStrip(s, cs), cs)

\* s[i:j] for 1-based i and exclusive 1-based j
Slice(s, i, j) == SubSeq(s, i, j - 1)

RECURSIVE FindFrom(_, _, _)
\* str.find(needle, i-1) + 1: the first position >= i where needle occurs, 0 if none
FindFrom(s, needle, i) ==
    IF i + Len(needle) - 1 > Len(s) THEN 0
    ELSE IF SubSeq(s, i, i + Len(needle) - 1) = needle THEN i
    ELSE FindFrom(s, needle, i + 1)

\* needle in s
Contains(s, needle) == FindFrom(s, needle, 1) # 0

RECURSIVE CollapseWs(_, _)
\* re.sub(r"\s+", " ", s): inRun is TRUE while inside a run of blanks
CollapseWs(s, inRun) ==
    IF s = "" THEN ""
    ELSE IF Head(s) \in SpaceSet
         THEN (IF inRun THEN "" ELSE " ") \o CollapseWs(Tail(s), TRUE)
         ELSE Head(s) \o CollapseWs(Tail(s), FALSE)

\* " ".join(s.split()) and re.sub(r"\s+", " ", s.strip())
NormSpaces(s) == CollapseWs(Strip(s), FALSE)

RECURSIVE Join(_, _)
\* sep.join(xs)
Join(xs, sep) ==
    IF xs = <<>> THEN ""
    ELSE IF Len(xs) = 1 THEN xs[1]
    ELSE xs[1] \o sep \o Join(Tail(xs), sep)

RECURSIVE StrToNat(_, _)
\* int(s) for a string of decimal digits; acc is the value read so far
StrToNat(s, acc) ==
    IF s = "" THEN acc
    ELSE StrToNat(Tail(s), acc * 10 + ((CHOOSE i \in 1..10 : Ch(DIGITS, i) = Head(s)) - 1))

(***************************************************************************)
(* Regular expressions (re, flags IGNORECASE): an expression is a record   *)
(* tagged by t.  Ends(r, s, i) is the sequence of positions at which a     *)
(* match of r starting at position i of s can end, without repetition, in  *)
(* the order in which the backtracking matcher of re tries them.  The      *)
(* subject s is lower-cased by the caller and literals are written in      *)
(* lower case, which is what IGNORECASE amounts to over ASCII.             *)
(***************************************************************************)
Lit(w) == [t |-> "lit", w |-> w]
In(S) == [t |-> "in", s |-> S]
NotIn(S) == [t |-> "notin", s |-> S]
Dot == [t |-> "any"]
Bol == [t |-> "bol"]
Eol == [t |-> "eol"]
Wb == [t |-> "wb"]
Cat(xs) == [t |-> "cat", xs |-> xs]
Alt(xs) == [t |-> "alt", xs |-> xs]
\* r{lo,hi}, greedy
Rep(r, lo, hi) == [t |-> "rep", r |-> r, lo |-> lo, hi |-> hi, open |-> FALSE, greedy |-> TRUE]
\* r{lo,}, greedy
RepOpen(r, lo) == [t |-> "rep", r |-> r, lo |-> lo, hi |-> lo, open |-> TRUE, greedy |-> TRUE]
\* r{lo,}?, lazy
LazyOpen(r, lo) == [t |-> "rep", r |-> r, lo |-> lo, hi |-> lo, open |-> TRUE, greedy |-> FALSE]
Opt(r) == Rep(r, 0, 1)
Star(r) == RepOpen(r, 0)
Plus(r) == RepOpen(r, 1)
Ws == Star(In(SpaceSet))
Ws1 == Plus(In(SpaceSet))
D == In(DigitSet)

\* a \o the members of b not yet in a (priority order, first occurrence kept)
Merge(a, b) == a \o SelectSeq(b, LAMBDA p : \A k \in 1..Len(a) : a[k] # p)

IsWordAt(s, i) == i >= 1 /\ i <= Len(s) /\ Ch(s, i) \in WordSet

RECURSIVE Ends(_, _, _)
RECURSIVE CatEnds(_, _, _, _)
RECURSIVE CatFrom(_, _, _, _)
RECURSIVE AltEnds(_, _, _, _)
RECURSIVE RepEnds(_, _, _, _)
RECURSIVE RepFrom(_, _, _, _, _)

Ends(r, s, i) ==
    CASE r.t = "lit" ->
           IF i + Len(r.w) - 1 <= Len(s) /\ SubSeq(s, i, i + Len(r.w) - 1) = r.w
           THEN <<i + Len(r.w)>> ELSE <<>>
      [] r.t = "in" -> IF i <= Len(s) /\ Ch(s, i) \in r.s THEN <<i + 1>> ELSE <<>>
      [] r.t = "notin" -> IF i <= Len(s) /\ Ch(s, i) \notin r.s THEN <<i + 1>> ELSE <<>>
      [] r.t = "any" -> IF i <= Len(s) THEN <<i + 1>> ELSE <<>>
      [] r.t = "bol" -> IF i = 1 THEN <<i>> ELSE <<>>
      [] r.t = "eol" -> IF i = Len(s) + 1 THEN <<i>> ELSE <<>>
      [] r.t = "wb" -> IF IsWordAt(s, i - 1) # IsWordAt(s, i) THEN <<i>> ELSE <<>>
      [] r.t = "cat" -> CatEnds(r.xs, 1, s, i)
      [] r.t = "alt" -> AltEnds(r.xs, 1, s, i)
      [] r.t = "rep" -> RepEnds(r, 0, s, i)

\* the ends of xs[k..] started at i
CatEnds(xs, k, s, i) ==
    IF k > Len(xs) THEN <<i>> ELSE CatFrom(xs, k + 1, s, Ends(xs[k], s, i))

\* the ends of xs[k..] started at each position of ps, in order
CatFrom(xs, k, s, ps) ==
    IF ps = <<>> THEN <<>>
    ELSE Merge(CatEnds(xs, k, s, Head(ps)), CatFrom(xs, k, s, Tail(ps)))

AltEnds(xs, k, s, i) ==
    IF k > Len(xs) THEN <<>> ELSE Merge(Ends(xs[k], s, i), AltEnds(xs, k + 1, s, i))

\* one character of s at position j matched against a one-character expression
CharOk(r, s, j) ==
    CASE r.t = "in" -> Ch(s, j) \in r.s
      [] r.t = "notin" -> Ch(s, j) \notin r.s
      [] r.t = "any" -> TRUE

IsCharExpr(r) == r.t \in {"in", "notin", "any"}

\* the length of the longest run of characters matching r from position i
RunLen(r, s, i) ==
    LET bad == {j \in i..Len(s) : ~CharOk(r, s, j)}
    IN  IF bad = {} THEN Len(s) + 1 - i
        ELSE (CHOOSE j \in bad : \A k \in bad : j <= k) - i

\* the ends of c{lo,hi} at i for a one-character expression c
CharRepEnds(r, s, i) ==
    LET run == RunLen(r.r, s, i)
        top == IF r.open \/ run < r.hi THEN run ELSE r.hi
        n == top - r.lo + 1
    IN  IF n <= 0 THEN <<>>
        ELSE IF r.greedy THEN [k \in 1..n |-> i + top + 1 - k]
        ELSE [k \in 1..n |-> i + r.lo + k - 1]

\* the ends of r.r{lo,hi} at i after n iterations were matched
RepEnds(r, n, s, i) ==
    IF IsCharExpr(r.r) THEN CharRepEnds(r, s, i)
    ELSE
    LET more == IF ~r.open /\ n >= r.hi THEN <<>>
                ELSE RepFrom(r, n + 1, s,
                             SelectSeq(Ends(r.r, s, i), LAMBDA p : p # i), i)
        stop == IF n >= r.lo THEN <<i>> ELSE <<>>
    IN  IF r.greedy THEN Merge(more, stop) ELSE Merge(stop, more)

RepFrom(r, n, s, ps, i) ==
    IF ps = <<>> THEN <<>>
    ELSE Merge(RepEnds(r, n, s, Head(ps)), RepFrom(r, n, s, Tail(ps), i))

RECURSIVE PathFrom(_, _, _, _)
RECURSIVE PathTry(_, _, _, _, _)

\* The boundaries <<p_k, ..., p_n+1>> of the first (highest priority) match of
\* the concatenation xs[k..n] started at i: xs[j] matched Slice(s, p_j, p_j+1).
\* <<>> when there is no match.
PathFrom(xs, k, s, i) ==
    IF k > Len(xs) THEN <<i>> ELSE PathTry(xs, k, s, i, Ends(xs[k], s, i))

PathTry(xs, k, s, i, ps) ==
    IF ps = <<>> THEN <<>>
    ELSE LET rest == PathFrom(xs, k + 1, s, Head(ps))
         IN  IF rest # <<>> THEN <<i>> \o rest ELSE PathTry(xs, k, s, i, Tail(ps))

\* pattern.match(s): the boundaries of the match of the concatenation xs at the
\* start of s, <<>> if none
ReMatch(xs, s) == PathFrom(xs, 1, StrLower(s), 1)

RECURSIVE SearchFrom(_, _, _)
SearchFrom(xs, s, i) ==
    IF i > Len(s) + 1 THEN <<>>
    ELSE LET p == PathFrom(xs, 1, s, i)
         IN  IF p # <<>> THEN p ELSE SearchFrom(xs, s, i + 1)

\* pattern.search(s): the boundaries of the leftmost match, <<>> if none
ReSearch(xs, s) == SearchFrom(xs, StrLower(s), 1)

\* pattern.fullmatch(s)
ReFullMatch(xs, s) == PathFrom(xs \o <<Eol>>, 1, StrLower(s), 1) # <<>>

\* m.group(k): the text matched by the k-th element of the concatenation
Group(s, p, k) == Slice(s, p[k], p[k + 1])

RECURSIVE FindAllFrom(_, _, _)
\* [(m.start(), m.end()) for m in pattern.finditer(s)], from position i on
FindAllFrom(xs, s, i) ==
    IF i > Len(s) + 1 THEN <<>>
    ELSE LET p == SearchFrom(xs, s, i)
         IN  IF p = <<>> THEN <<>>
             ELSE LET st == p[1]
                      en == p[Len(p)]
                  IN  <<<<st, en>>>> \o FindAllFrom(xs, s, IF en > st THEN en ELSE en + 1)

ReFindIter(xs, s) == FindAllFrom(xs, StrLower(s), 1)

(***************************************************************************)
(* tribelog/parser.py: the tolerant header patterns                        *)
(***************************************************************************)
DayWord == Alt(<<Lit("day"), Lit("dav"), Lit("doy")>>)
DaySep == Cat(<<Ws, Opt(In({",", "/", ":", "-"})), Ws>>)
DayTimeSep == Opt(Alt(<<Cat(<<Ws, Lit(","), Ws>>), Ws1>>))
ClockSep == Cat(<<Ws, In({":", "."}), Ws>>)
SecondPart == Opt(Cat(<<ClockSep, Rep(D, 2, 3)>>))
MsgSep == Cat(<<Ws, Opt(Alt(<<Cat(<<Ws, In({":", "-"}), Ws>>), Ws1>>))>>)

\* _RX_HEADER, one element per group of interest (matched from position 1)
RX_HEADER ==
    <<Ws, DayWord, DaySep, Rep(D, 1, 6), DayTimeSep, Rep(D, 1, 2), ClockSep,
      Rep(D, 1, 2), SecondPart, MsgSep, LazyOpen(Dot, 0), Ws, Eol>>

\* _RX_HEADER_ANY: the same header, not anchored and without the message
RX_HEADER_ANY ==
    <<DayWord, DaySep, Rep(D, 1, 6), DayTimeSep, Rep(D, 1, 2), ClockSep,
      Rep(D, 1, 2), SecondPart>>

\* the groups of _RX_HEADER as element numbers of RX_HEADER
GDay == 4
GHour == 6
GMinute == 8
GSecond == 9
GMsg == 11

RECURSIVE TrailingDigits(_)
\* the digits at the end of a string (the <second> group inside its optional part)
TrailingDigits(s) ==
    IF s # "" /\ Ch(s, Len(s)) \in DigitSet
    THEN TrailingDigits(SubSeq(s, 1, Len(s) - 1)) \o Ch(s, Len(s))
    ELSE ""

\* variant of _clamp_int that lets every value through
_clamp_int_Through(v, lo, hi) == v

\* _clamp_int
_clamp_int(v, lo, hi) == IF v < lo THEN lo ELSE IF v > hi THEN hi ELSE v

\* variant of _parse_int that counts from one
_parse_int_FromOne(t, default) == IF Strip(t) = "" THEN default ELSE StrToNat(Strip(t), 0) + 1

\* _parse_int on a group of the header pattern (decimal digits, or absent)
_parse_int(t, default) == IF Strip(t) = "" THEN default ELSE StrToNat(Strip(t), 0)

\* f"{v:02d}" for 0 <= v <= 99
Fmt02(v) == Ch(DIGITS, (v \div 10) + 1) \o Ch(DIGITS, (v % 10) + 1)

\* _normalize_time; second_s = "" stands for an absent <second> group
_normalize_time(hour_s, minute_s, second_s) ==
    LET hh == _clamp_int(_parse_int(hour_s, 0), 0, 23)
        mm == _clamp_int(_parse_int(minute_s, 0), 0, 59)
        sec_raw == Strip(second_s)
        sec2 == IF Len(sec_raw) >= 3 THEN SubSeq(sec_raw, Len(sec_raw) - 1, Len(sec_raw))
                ELSE sec_raw
        ss == IF sec_raw = "" THEN 0 ELSE _clamp_int(_parse_int(sec2, 0), 0, 59)
    IN  Fmt02(hh) \o ":" \o Fmt02(mm) \o ":" \o Fmt02(ss)

\* re.fullmatch(r"[-_.]+", s) (the en and em dashes are outside the alphabet)
RX_PUNCT == <<Plus(In({"-", "_", "."}))>>

\* raw lines handed to stitch_wrapped_lines in the modelled runs
StitchPool ==
    {"Day 5, 10:00:00: Your Behemoth Gate",
     "was destroyed by Grief!",
     "  - Lvl 20  ",
     "...",
     "   ",
     "Day 6, 01:02:03: A Day 6, 01:02:04: B",
     "tail Day 7, 1:1 C",
     "Dav 8 2:2:22 x Doy 9,3:3 y Day 10 4:4",
     "Sunday 3, 4:5 fun",
     "- Day 4, 1:1 D"}

\* raw lines handed to parse_header_lines in the modelled runs
ParsePool ==
    {"Day 12,08:15:30 Your Thatch Wall was destroyed by Human!",
     "Day 0, 01:00:00: zero day",
     "Day 000 1:1 also zero",
     "Day 7, 05:05:05: Your Rex - Lvl 5 (Rex) starved to death!",
     "Day 7, 05:05:05: Your Rex - Lvl 5 (Rex) was killed!",
     "Day 7, 05:05:05: Your Rex",
     "Day 7, 05:05:05: - Lvl 5 (Rex) was killed!",
     "Day 7, 05:05:05: 05:05",
     "not a header"}

\* _RX_HEADER.match(t)
HeaderMatch(t) == ReMatch(RX_HEADER, t)

IsHeaderLine(t) == HeaderMatch(t) # <<>>

(***************************************************************************)
(* tribelog/parser.py: stitch_wrapped_lines                                *)
(***************************************************************************)
RECURSIVE SegmentsOf(_, _, _)
\* the header-anchored segments s2[start:end].strip() of _split_multi_headers
SegmentsOf(s2, ms, i) ==
    IF i > Len(ms) THEN <<>>
    ELSE LET start == ms[i][1]
             end == IF i + 1 <= Len(ms) THEN ms[i + 1][1] ELSE Len(s2) + 1
         IN  <<Strip(Slice(s2, start, end))>> \o SegmentsOf(s2, ms, i + 1)

\* variant of _split_multi_headers that never splits
_split_multi_headers_whole(line) == IF Strip(line) = "" THEN <<>> ELSE <<Strip(line)>>

_split_multi_headers(line) ==
    LET s2 == Strip(line)
        ms == ReFindIter(RX_HEADER_ANY, s2)
        prefix == IF ms # <<>> /\ ms[1][1] > 1 THEN Strip(Slice(s2, 1, ms[1][1])) ELSE ""
        parts == (IF prefix # "" THEN <<prefix>> ELSE <<>>) \o SegmentsOf(s2, ms, 1)
    IN  IF s2 = "" THEN <<>>
        ELSE IF ms = <<>> THEN <<s2>>
        ELSE SelectSeq(parts, LAMBDA q : q # "")

\* variant of JoinCont without the separating blank
JoinCont_NoBlank(prev, q) == Strip(prev \o q)

\* (out[-1] + " " + p).strip()
JoinCont(prev, q) == Strip(prev \o " " \o q)

RECURSIVE StitchParts(_, _)
\* the inner loop of stitch_wrapped_lines over the parts of one raw line
StitchParts(out, parts) ==
    IF parts = <<>> THEN out
    ELSE LET q == Head(parts)
         IN  IF q = "" THEN StitchParts(out, Tail(parts))
             ELSE IF IsHeaderLine(q) THEN StitchParts(Append(out, q), Tail(parts))
             ELSE IF out # <<>>
                  THEN StitchParts([out EXCEPT ![Len(out)] = JoinCont(out[Len(out)], q)],
                                   Tail(parts))
                  ELSE StitchParts(Append(out, q), Tail(parts))

\* one iteration of the outer loop of stitch_wrapped_lines
\* variant of StitchLine that keeps the raw line as it came
StitchLine_Untrimmed(out, raw) == out \o <<raw>>

StitchLine(out, raw) ==
    LET t == Strip(raw)
    IN  IF t = "" THEN out
        ELSE IF ReFullMatch(RX_PUNCT, t) THEN out
        ELSE StitchParts(out, _split_multi_headers(t))

RECURSIVE StitchFrom(_, _)
StitchFrom(out, ls) ==
    IF ls = <<>> THEN out ELSE StitchFrom(StitchLine(out, Head(ls)), Tail(ls))

stitch_wrapped_lines(ls) == StitchFrom(<<>>, ls)

(***************************************************************************)
(* tribelog/parser.py: parse_header_lines and its post-processing passes   *)
(***************************************************************************)
SameTs(a, b) == a.ark_day = b.ark_day /\ a.ark_time = b.ark_time

\* variant of RejectDay that lets day 0 through
RejectDay_Negative(day) == day < 0

\* if day <= 0: continue
RejectDay(day) == day <= 0

\* the body of the loop of parse_header_lines: the events of one line (0 or 1)
ParseOne(line) ==
    LET t == Strip(line)
        m == HeaderMatch(t)
        day == _parse_int(Group(t, m, GDay), 0)
    IN  IF m = <<>> THEN <<>>
        ELSE IF RejectDay(day) THEN <<>>
        ELSE <<[ark_day |-> day,
                ark_time |-> _normalize_time(Group(t, m, GHour), Group(t, m, GMinute),
                                             TrailingDigits(Group(t, m, GSecond))),
                message |-> Strip(Group(t, m, GMsg)),
                raw_line |-> NormSpaces(line)]>>

RECURSIVE ParseLoop(_)
ParseLoop(ls) == IF ls = <<>> THEN <<>> ELSE ParseOne(Head(ls)) \o ParseLoop(Tail(ls))

\* re.sub(r"^Your\s+", "", v, flags=re.IGNORECASE)
StripYour(v) ==
    LET m == ReMatch(<<Lit("your"), Ws1>>, v)
    IN  IF m = <<>> THEN v ELSE Slice(v, m[Len(m)], Len(v) + 1)

\* variant of _canonical_victim that keeps a leading "Your "
_canonical_victim_KeepYour(v) == StripChars(NormSpaces(v), {" ", "!", "."})

\* re.sub(r"\s+", " ", s.strip()); re.sub(r"^Your\s+", "", v, re.I); v.strip(" !.\t\r\n")
_canonical_victim(v) == StripChars(StripYour(NormSpaces(v)), {" ", "!", "."})

RX_STARVED_MSG ==
    <<LazyOpen(Dot, 1), Ws1, Lit("starved"), Ws1, Lit("to"), Ws1, Lit("death"),
      Opt(Lit("!")), Eol>>

\* _extract_victim_from_starved; "" stands for None
_extract_victim_from_starved(msg) ==
    LET t == Strip(msg)
        m == ReMatch(RX_STARVED_MSG, t)
    IN  IF m = <<>> THEN "" ELSE _canonical_victim(Group(t, m, 1))

RX_WAS_KILLED_WORD == <<Wb, Lit("was"), Ws1, Lit("killed"), Wb>>
RX_WAS_KILLED_BY_WORD == <<Wb, Lit("was"), Ws1, Lit("killed"), Ws1, Lit("by"), Wb>>
RX_KILLED_MSG == <<LazyOpen(Dot, 1), Ws1, Lit("was"), Ws1, Lit("killed"), Wb, Star(Dot), Eol>>

\* _extract_victim_from_killed; "" stands for None
_extract_victim_from_killed(msg) ==
    LET t == Strip(msg)
        m == ReMatch(RX_KILLED_MSG, t)
    IN  IF ReSearch(RX_WAS_KILLED_WORD, t) = <<>> THEN ""
        ELSE IF ReSearch(RX_WAS_KILLED_BY_WORD, t) # <<>> THEN ""
        ELSE IF m = <<>> THEN ""
        ELSE _canonical_victim(Group(t, m, 1))

StarvedKey(e) == <<e.ark_day, e.ark_time, _extract_victim_from_starved(e.message)>>

_merge_starved_killed_pairs(events) ==
    LET starved_keys == {StarvedKey(events[i]) :
                           i \in {j \in 1..Len(events) :
                                    _extract_victim_from_starved(events[j].message) # ""}}
        Kept(e) == LET victim == _extract_victim_from_killed(e.message)
                   IN  ~(victim # "" /\ <<e.ark_day, e.ark_time, victim>> \in starved_keys)
    IN  SelectSeq(events, Kept)

_ACTION_KWS ==
    <<"was killed", "was destroyed", "was demolished", "decayed and was destroyed",
      "starved to death", "destroyed their", "tamed a", "claimed a", "was born",
      "hatched", "joined the tribe", "left the tribe", "was kicked", "uploaded",
      "downloaded", "was released from a cryopod", "froze", "unfroze">>

_has_action_keywords(msg) ==
    LET m == StrLower(msg) IN \E k \in 1..Len(_ACTION_KWS) : Contains(m, _ACTION_KWS[k])

RX_CONT ==
    <<Alt(<<Cat(<<Lit("lvl"), Wb>>), Cat(<<Lit("-"), Ws, Lit("lvl"), Wb>>),
            Cat(<<Plus(D), Wb>>)>>)>>

_looks_like_continuation(msg) ==
    LET t == Strip(msg)
    IN  IF t = "" THEN FALSE
        ELSE \/ Ch(t, 1) \in {"(", "[", "{", "'", "\""}
             \/ Ch(t, 1) = "-"
             \/ ReMatch(RX_CONT, t) # <<>>

RX_FRAG_END ==
    <<Alt(<<Cat(<<Wb, Lit("lvl"), Wb>>), Cat(<<Wb, Lit("was"), Wb>>),
            Cat(<<Wb, Lit("by"), Wb>>), Cat(<<Wb, Lit("tribe"), Wb>>)>>), Ws, Eol>>

_looks_like_fragment(msg) ==
    LET t == Strip(msg)
    IN  \/ t = ""
        \/ Len(t) <= 2
        \/ t \in {"-", "_"}
        \/ ReFullMatch(RX_PUNCT, t)
        \/ (Len(t) < 20 /\ ~_has_action_keywords(t))
        \/ ReSearch(RX_FRAG_END, t) # <<>>
        \/ Ch(t, Len(t)) = "-"

\* variant of JoinMsg that puts the later message first
JoinMsg_Reversed(prev_msg, cur_msg) == Strip(cur_msg \o " " \o prev_msg)

\* (prev_msg + " " + cur_msg).strip()
JoinMsg(prev_msg, cur_msg) == Strip(prev_msg \o " " \o cur_msg)

\* one iteration of the loop of _merge_same_timestamp_fragments
MergeStep(out, e) ==
    IF out = <<>> THEN <<e>>
    ELSE LET prev == out[Len(out)]
             prev_msg == Strip(prev.message)
             cur_msg == Strip(e.message)
             prev_raw == Strip(prev.raw_line)
             cur_raw == Strip(e.raw_line)
             joined == JoinMsg(prev_msg, cur_msg)
         IN  IF ~SameTs(prev, e) THEN Append(out, e)
             ELSE IF cur_msg = "" THEN out
             ELSE IF _looks_like_fragment(prev_msg) \/ _looks_like_continuation(cur_msg)
                  THEN [out EXCEPT ![Len(out)] =
                          [prev EXCEPT !.message = joined,
                                       !.raw_line =
                                          IF cur_raw # "" /\ ~Contains(prev_raw, cur_raw)
                                          THEN StripChars(prev_raw \o " | " \o cur_raw, {" ", "|"})
                                          ELSE prev.raw_line]]
             ELSE IF _looks_like_fragment(cur_msg) /\ ~_has_action_keywords(prev_msg)
                  THEN [out EXCEPT ![Len(out)] = [prev EXCEPT !.message = joined]]
             ELSE Append(out, e)

RECURSIVE MergeFrom(_, _)
MergeFrom(out, events) ==
    IF events = <<>> THEN out ELSE MergeFrom(MergeStep(out, Head(events)), Tail(events))

_merge_same_timestamp_fragments(events) == MergeFrom(<<>>, events)

\* re.fullmatch(r"\d{1,2}[:.,]\d{2}(?:[:.,]\d{2})?", s)
RX_TIMELIKE ==
    <<Rep(D, 1, 2), In({":", ".", ","}), Rep(D, 2, 2),
      Opt(Cat(<<In({":", ".", ","}), Rep(D, 2, 2)>>))>>

\* variant of _is_noise_message without the time-like test
_is_noise_message_NoTime(msg) ==
    LET t == Strip(msg)
    IN  t = "" \/ t \in {"-", "_"} \/ ReFullMatch(RX_PUNCT, t)

_is_noise_message(msg) ==
    LET t == Strip(msg)
    IN  \/ t = ""
        \/ t \in {"-", "_"}
        \/ ReFullMatch(RX_PUNCT, t)
        \/ ReFullMatch(RX_TIMELIKE, t)

_drop_noise_events(events) == SelectSeq(events, LAMBDA e : ~_is_noise_message(e.message))

RECURSIVE DropChars(_, _)
\* re.sub(r"[\"'`]+", "", s) (the backtick is outside the alphabet)
DropChars(t, cs) ==
    IF t = "" THEN ""
    ELSE (IF Head(t) \in cs THEN "" ELSE Head(t)) \o DropChars(Tail(t), cs)

_norm_cmp(t) == DropChars(NormSpaces(StrLower(t)), {"\"", "'"})

\* variant of DropsAt that does not compare the timestamps
DropsAt_AnyTime(events, i) ==
    /\ i + 1 <= Len(events)
    /\ LET cur_msg == Strip(events[i].message)
           a == _norm_cmp(cur_msg)
           b == _norm_cmp(Strip(events[i + 1].message))
       IN  /\ a # "" /\ b # "" /\ a # b
           /\ Contains(b, a)
           /\ _looks_like_fragment(cur_msg)
           /\ ~_has_action_keywords(cur_msg)

\* the condition under which _drop_fragment_substrings skips events[i]
DropsAt(events, i) ==
    /\ i + 1 <= Len(events)
    /\ SameTs(events[i], events[i + 1])
    /\ LET cur_msg == Strip(events[i].message)
           a == _norm_cmp(cur_msg)
           b == _norm_cmp(Strip(events[i + 1].message))
       IN  /\ a # "" /\ b # "" /\ a # b
           /\ Contains(b, a)
           /\ _looks_like_fragment(cur_msg)
           /\ ~_has_action_keywords(cur_msg)

_drop_fragment_substrings(events) ==
    LET keep == {i \in 1..Len(events) : ~DropsAt(events, i)}
        Nth(k) == CHOOSE i \in keep : Cardinality({j \in keep : j < i}) = k - 1
    IN  [k \in 1..Cardinality(keep) |-> events[Nth(k)]]

parse_header_lines(ls) ==
    _drop_fragment_substrings(
        _drop_noise_events(
            _merge_same_timestamp_fragments(
                _merge_starved_killed_pairs(ParseLoop(ls)))))

(***************************************************************************)
(* tribelog/classify.py: patterns (all compiled with re.I; element numbers  *)
(* of the named groups are given with each pattern)                         *)
(***************************************************************************)
\* classify.py line 43: \bauto[-\s]?decay\b.*\b(destroyed|decay destroyed)\b
RX_AUTO_DECAY ==
    <<Wb, Lit("auto"), Opt(In(SpaceSet \cup {"-"})), Lit("decay"), Wb, Star(Dot), Wb,
      Cat(<<Lit("de"), Alt(<<Lit("stroyed"), Lit("cay destroyed")>>)>>), Wb>>

\* classify.py line 44: \banti[-\s]?mesh\b|\bmesh\b.*\bdestroyed\b
RX_ANTIMESH ==
    <<Wb,
      Alt(<<Cat(<<Lit("anti"), Opt(In(SpaceSet \cup {"-"})), Lit("mesh"), Wb>>),
          Cat(<<Lit("mesh"), Wb, Star(Dot), Wb, Lit("destroyed"), Wb>>)>>)>>

\* classify.py line 47: \bdecayed\s+and\s+was\s+destroyed\b
RX_DECAYED_DESTROYED ==
    <<Wb, Lit("decayed"), Ws1, Lit("and"), Ws1, Lit("was"), Ws1, Lit("destroyed"), Wb>>

\* classify.py line 48: ^Your\s+(?P<structure>.+?)\s+decayed\s+and\s+was\s+destroyed\s*!?\s*$
\* groups: structure = element 4
RX_YOUR_STRUCT_DECAYED ==
    <<Bol, Lit("your"), Ws1, LazyOpen(Dot, 1), Ws1, Lit("decayed"), Ws1, Lit("and"), Ws1,
      Lit("was"), Ws1, Lit("destroyed"), Ws, Opt(Lit("!")), Ws, Eol>>

\* classify.py line 49: ^Your\s+(?P<structure>.+?)\s+was\s+demolished\s+by\s+(?P<actor>.+?)...
\* groups: structure = element 4, actor = element 12
RX_YOUR_STRUCT_DEMOLISHED ==
    <<Bol, Lit("your"), Ws1, LazyOpen(Dot, 1), Ws1, Lit("was"), Ws1, Lit("demolished"),
      Ws1, Lit("by"), Ws1, LazyOpen(Dot, 1), Ws, Opt(Lit("!")), Ws, Eol>>

\* classify.py line 53: ^(?P<member>.+?)\s+(?P<action>joined|left)\s+the\s+tribe\s*!?\s*$
\* groups: member = element 2, action = element 4
RX_JOIN_LEFT_TRIBE ==
    <<Bol, LazyOpen(Dot, 1), Ws1, Alt(<<Lit("joined"), Lit("left")>>), Ws1, Lit("the"),
      Ws1, Lit("tribe"), Ws, Opt(Lit("!")), Ws, Eol>>

\* classify.py line 54: ^(?P<member>.+?)\s+was\s+kicked\s+from\s+the\s+tribe\s+by\s+(?P<act...
\* groups: member = element 2, actor = element 16
RX_KICKED_FROM_TRIBE ==
    <<Bol, LazyOpen(Dot, 1), Ws1, Lit("was"), Ws1, Lit("kicked"), Ws1, Lit("from"), Ws1,
      Lit("the"), Ws1, Lit("tribe"), Ws1, Lit("by"), Ws1, LazyOpen(Dot, 1), Ws,
      Opt(Lit("!")), Ws, Eol>>

\* classify.py line 55: ^(?P<member>.+?)\s+was\s+(?P<action>promoted|demoted)\s+to\s+(?P<ra...
\* groups: member = element 2, action = element 6, rank = element 10
RX_PROMOTED_DEMOTED ==
    <<Bol, LazyOpen(Dot, 1), Ws1, Lit("was"), Ws1,
      Alt(<<Lit("promoted"), Lit("demoted")>>), Ws1, Lit("to"), Ws1, LazyOpen(Dot, 1), Ws,
      Opt(Lit("!")), Ws, Eol>>

\* classify.py line 56: ^\s*Tribe\s+Name\s+was\s+changed\s+to\s+(?P<name>.+?)\s*!?\s*$
\* groups: name = element 13
RX_TRIBE_RENAMED ==
    <<Bol, Ws, Lit("tribe"), Ws1, Lit("name"), Ws1, Lit("was"), Ws1, Lit("changed"), Ws1,
      Lit("to"), Ws1, LazyOpen(Dot, 1), Ws, Opt(Lit("!")), Ws, Eol>>

\* classify.py line 59: ^Your\s+Tribe\s+Tamed\s+a\s+(?P<species>.+?)\s+-\s+Lvl\s+(?P<lvl>\d...
\* groups: species = element 10, lvl = element 16
RX_TAMED_OFFICIAL ==
    <<Bol, Lit("your"), Ws1, Lit("tribe"), Ws1, Lit("tamed"), Ws1, Lit("a"), Ws1,
      LazyOpen(Dot, 1), Ws1, Lit("-"), Ws1, Lit("lvl"), Ws1, Plus(D), Ws, Opt(Lit("!")),
      Ws, Eol>>

\* classify.py line 60: ^Your\s+Tribe\s+Claimed\s+a\s+(?P<name>.+?)\s+-\s+Lvl\s+(?P<lvl>\d+...
\* groups: name = element 10, lvl = element 16, species = element 19
RX_CLAIMED_OFFICIAL ==
    <<Bol, Lit("your"), Ws1, Lit("tribe"), Ws1, Lit("claimed"), Ws1, Lit("a"), Ws1,
      LazyOpen(Dot, 1), Ws1, Lit("-"), Ws1, Lit("lvl"), Ws1, Plus(D), Ws, Lit("("),
      LazyOpen(Dot, 1), Lit(")"), Ws, Opt(Lit("!")), Ws, Eol>>

\* classify.py line 61: ^A\s+(?P<species>.+?)\s+was\s+(?P<mode>born|hatched)\s*!?\s*$
\* groups: species = element 4, mode = element 8
RX_BIRTH_HATCH ==
    <<Bol, Lit("a"), Ws1, LazyOpen(Dot, 1), Ws1, Lit("was"), Ws1,
      Alt(<<Lit("born"), Lit("hatched")>>), Ws, Opt(Lit("!")), Ws, Eol>>

\* classify.py line 62: ^Your\s+(?P<victim_name>.+?)\s+-\s+Lvl\s+(?P<victim_lvl>\d+)\s*\((?...
\* groups: victim_name = element 4, victim_lvl = element 10, victim_species = element 13
RX_CRYOPOD_RELEASED ==
    <<Bol, Lit("your"), Ws1, LazyOpen(Dot, 1), Ws1, Lit("-"), Ws1, Lit("lvl"), Ws1,
      Plus(D), Ws, Lit("("), LazyOpen(Dot, 1), Lit(")"), Ws1, Lit("was"), Ws1,
      Lit("released"), Ws1, Lit("from"), Ws1, Lit("a"), Ws1, Lit("cryopod"), Ws,
      Opt(Lit("!")), Ws, Eol>>

\* classify.py line 65: ^Your\s+(?P<victim_name>.+?)\s+-\s+Lvl\s+(?P<victim_lvl>\d+)\s*\((?...
\* groups: victim_name = element 4, victim_lvl = element 10, victim_species = element 13, attacker_name = element 22, attacker_lvl = element 28, attacker_tribe = element 31
RX_YOUR_DINO_KILLED_BY_PLAYER ==
    <<Bol, Lit("your"), Ws1, LazyOpen(Dot, 1), Ws1, Lit("-"), Ws1, Lit("lvl"), Ws1,
      Plus(D), Ws, Lit("("), LazyOpen(Dot, 1), Lit(")"), Ws1, Lit("was"), Ws1,
      Lit("killed"), Ws1, Lit("by"), Ws1, LazyOpen(Dot, 1), Ws1, Lit("-"), Ws1, Lit("lvl"),
      Ws1, Plus(D), Ws, Lit("("), LazyOpen(Dot, 1), Lit(")"), Ws, Opt(Lit("!")), Ws, Eol>>

\* classify.py line 69: ^Your\s+(?P<victim_name>.+?)\s+-\s+Lvl\s+(?P<victim_lvl>\d+)\s*\((?...
\* groups: victim_name = element 4, victim_lvl = element 10, victim_species = element 13, wild_species = element 24, wild_lvl = element 30
RX_YOUR_DINO_KILLED_BY_WILD ==
    <<Bol, Lit("your"), Ws1, LazyOpen(Dot, 1), Ws1, Lit("-"), Ws1, Lit("lvl"), Ws1,
      Plus(D), Ws, Lit("("), LazyOpen(Dot, 1), Lit(")"), Ws1, Lit("was"), Ws1,
      Lit("killed"), Ws1, Lit("by"), Ws1, Lit("a"), Ws1, LazyOpen(Dot, 1), Ws1, Lit("-"),
      Ws1, Lit("lvl"), Ws1, Plus(D), Ws, Opt(Lit("!")), Ws, Eol>>

\* classify.py line 73: ^Your\s+(?P<victim_name>.+?)\s+-\s+Lvl\s+(?P<victim_lvl>\d+)\s*\((?...
\* groups: victim_name = element 4, victim_lvl = element 10, victim_species = element 13
RX_YOUR_DINO_KILLED_ENV ==
    <<Bol, Lit("your"), Ws1, LazyOpen(Dot, 1), Ws1, Lit("-"), Ws1, Lit("lvl"), Ws1,
      Plus(D), Ws, Lit("("), LazyOpen(Dot, 1), Lit(")"), Ws1, Lit("was"), Ws1,
      Lit("killed"), Ws, Opt(Lit("!")), Ws, Eol>>

\* classify.py line 77: ^(?P<victim_name>.+?)\s+was\s+killed\s+by\s+(?P<attacker_name>.+?)\...
\* groups: victim_name = element 2, attacker_name = element 10, attacker_lvl = element 16, attacker_tribe = element 19
RX_PLAYER_KILLED_BY_PLAYER ==
    <<Bol, LazyOpen(Dot, 1), Ws1, Lit("was"), Ws1, Lit("killed"), Ws1, Lit("by"), Ws1,
      LazyOpen(Dot, 1), Ws1, Lit("-"), Ws1, Lit("lvl"), Ws1, Plus(D), Ws, Lit("("),
      LazyOpen(Dot, 1), Lit(")"), Ws, Opt(Lit("!")), Ws, Eol>>

\* classify.py line 83: ^\s*An\s+attack\s+was\s+prevented\s+by\s+Offline\s+Raid\s+Protectio...
RX_ORP_PREVENTED ==
    <<Bol, Ws, Lit("an"), Ws1, Lit("attack"), Ws1, Lit("was"), Ws1, Lit("prevented"), Ws1,
      Lit("by"), Ws1, Lit("offline"), Ws1, Lit("raid"), Ws1, Lit("protection"), Ws,
      Opt(Lit("!")), Ws, Eol>>

\* classify.py line 86: ^(?P<actor>.+?)\s+demolished\b
\* groups: actor = element 2
RX_DEMOLISHED ==
    <<Bol, LazyOpen(Dot, 1), Ws1, Lit("demolished"), Wb>>

\* classify.py line 87: \bwas\s+destroyed\s+by\s+(?P<actor>.+?)\s*(?:!|\.|$)
\* groups: actor = element 8
RX_DESTROYED_BY ==
    <<Wb, Lit("was"), Ws1, Lit("destroyed"), Ws1, Lit("by"), Ws1, LazyOpen(Dot, 1), Ws,
      Alt(<<Lit("!"), Lit("."), Eol>>)>>

\* classify.py line 88: \bwas\s+destroyed\b
RX_DESTROYED ==
    <<Wb, Lit("was"), Ws1, Lit("destroyed"), Wb>>

\* classify.py line 89: \bdestroyed\b\s+their\b
RX_ENEMY_DESTROYED ==
    <<Wb, Lit("destroyed"), Wb, Ws1, Lit("their"), Wb>>

\* classify.py line 92: ^\s*Tribemember\s+(?P<victim>.+?)\s+was\s+killed\s+by\s+(?P<actor>....
\* groups: victim = element 5, actor = element 13
RX_TRIBEMEMBER_KILLED_BY ==
    <<Bol, Ws, Lit("tribemember"), Ws1, LazyOpen(Dot, 1), Ws1, Lit("was"), Ws1,
      Lit("killed"), Ws1, Lit("by"), Ws1, LazyOpen(Dot, 1), Ws, Opt(Lit("!")), Ws, Eol>>

\* classify.py line 96: ^\s*Your\s+Tribe\s+killed\s+(?P<victim>.+?)\s*!?\s*$
\* groups: victim = element 9
RX_YOUR_TRIBE_KILLED ==
    <<Bol, Ws, Lit("your"), Ws1, Lit("tribe"), Ws1, Lit("killed"), Ws1, LazyOpen(Dot, 1),
      Ws, Opt(Lit("!")), Ws, Eol>>

\* classify.py line 97: ^(?P<victim>.+?)\s+was\s+killed\s+by\s+(?P<actor>.+?)\s*!?\s*$
\* groups: victim = element 2, actor = element 10
RX_WAS_KILLED_BY ==
    <<Bol, LazyOpen(Dot, 1), Ws1, Lit("was"), Ws1, Lit("killed"), Ws1, Lit("by"), Ws1,
      LazyOpen(Dot, 1), Ws, Opt(Lit("!")), Ws, Eol>>

\* classify.py line 98: ^(?P<victim>.+?)\s+was\s+killed\b
\* groups: victim = element 2
RX_WAS_KILLED ==
    <<Bol, LazyOpen(Dot, 1), Ws1, Lit("was"), Ws1, Lit("killed"), Wb>>

\* classify.py line 101: ^(?P<victim>.+?)\s+starved\s+to\s+death\s*!?\s*$
\* groups: victim = element 2
RX_STARVED ==
    <<Bol, LazyOpen(Dot, 1), Ws1, Lit("starved"), Ws1, Lit("to"), Ws1, Lit("death"), Ws,
      Opt(Lit("!")), Ws, Eol>>

\* classify.py line 102: ^(?P<actor>.+?)\s+froze\s+(?P<victim>.+?)\s*$
\* groups: actor = element 2, victim = element 6
RX_FROZE ==
    <<Bol, LazyOpen(Dot, 1), Ws1, Lit("froze"), Ws1, LazyOpen(Dot, 1), Ws, Eol>>

\* classify.py line 103: \bcryopod\b
RX_CRYOPOD ==
    <<Wb, Lit("cryopod"), Wb>>

\* classify.py line 105: ^(?P<actor>.+?)\s+claimed\s+(?P<what>.+?)\s*!?\s*$
\* groups: actor = element 2, what = element 6
RX_CLAIMED ==
    <<Bol, LazyOpen(Dot, 1), Ws1, Lit("claimed"), Ws1, LazyOpen(Dot, 1), Ws, Opt(Lit("!")),
      Ws, Eol>>

\* classify.py line 106: \bunclaimed\b
RX_UNCLAIMED ==
    <<Wb, Lit("unclaimed"), Wb>>

\* classify.py line 107: \btamed\s+a\b
RX_TAMED ==
    <<Wb, Lit("tamed"), Ws1, Lit("a"), Wb>>

\* classify.py line 110: ^(?P<actor>.+?)\s+uploaded\b
\* groups: actor = element 2
RX_UPLOADED ==
    <<Bol, LazyOpen(Dot, 1), Ws1, Lit("uploaded"), Wb>>

\* classify.py line 111: ^(?P<actor>.+?)\s+downloaded\b
\* groups: actor = element 2
RX_DOWNLOADED ==
    <<Bol, LazyOpen(Dot, 1), Ws1, Lit("downloaded"), Wb>>

\* classify.py line 112: \btransferred\b
RX_TRANSFERRED ==
    <<Wb, Lit("transferred"), Wb>>

\* classify.py line 115: ^(?P<member>.+?)\s+was\s+added\s+to\s+the\s+Tribe\s+by\s+(?P<actor>...
\* groups: member = element 2, actor = element 16
RX_ADDED_TO_TRIBE ==
    <<Bol, LazyOpen(Dot, 1), Ws1, Lit("was"), Ws1, Lit("added"), Ws1, Lit("to"), Ws1,
      Lit("the"), Ws1, Lit("tribe"), Ws1, Lit("by"), Ws1, LazyOpen(Dot, 1), Ws,
      Opt(Lit("!")), Ws, Eol>>

\* classify.py line 119: ^(?P<member>.+?)\s+left\s+the\s+Tribe\s*!?\s*$
\* groups: member = element 2
RX_LEFT_TRIBE ==
    <<Bol, LazyOpen(Dot, 1), Ws1, Lit("left"), Ws1, Lit("the"), Ws1, Lit("tribe"), Ws,
      Opt(Lit("!")), Ws, Eol>>

\* classify.py line 120: ^(?P<member>.+?)\s+was\s+removed\s+from\s+the\s+Tribe(?:\s+by\s+(?P...
\* groups: member = element 2
RX_REMOVED_FROM_TRIBE ==
    <<Bol, LazyOpen(Dot, 1), Ws1, Lit("was"), Ws1, Lit("removed"), Ws1, Lit("from"), Ws1,
      Lit("the"), Ws1, Lit("tribe"), Opt(Cat(<<Ws1, Lit("by"), Ws1, LazyOpen(Dot, 1)>>)),
      Ws, Opt(Lit("!")), Ws, Eol>>

\* classify.py line 124: ^(?P<member>.+?)\s+was\s+promoted\s+to\s+a\s+Tribe\s+Admin\s+by\s+(...
\* groups: member = element 2, actor = element 18
RX_PROMOTED_ADMIN ==
    <<Bol, LazyOpen(Dot, 1), Ws1, Lit("was"), Ws1, Lit("promoted"), Ws1, Lit("to"), Ws1,
      Lit("a"), Ws1, Lit("tribe"), Ws1, Lit("admin"), Ws1, Lit("by"), Ws1,
      LazyOpen(Dot, 1), Ws, Opt(Lit("!")), Ws, Eol>>

\* classify.py line 128: ^\s*Tribe\s+Owner\s+was\s+changed\s+to\s+(?P<new_owner>.+?)\s*!?\s*$
\* groups: new_owner = element 13
RX_OWNER_CHANGED ==
    <<Bol, Ws, Lit("tribe"), Ws1, Lit("owner"), Ws1, Lit("was"), Ws1, Lit("changed"), Ws1,
      Lit("to"), Ws1, LazyOpen(Dot, 1), Ws, Opt(Lit("!")), Ws, Eol>>

\* classify.py line 129: \bset\s+to\s+Rank\s+Group\b.*\bby\b\s+(?P<actor>.+?)\s*!?\s*$
\* groups: actor = element 15
RX_SET_RANK_GROUP ==
    <<Wb, Lit("set"), Ws1, Lit("to"), Ws1, Lit("rank"), Ws1, Lit("group"), Wb, Star(Dot),
      Wb, Lit("by"), Wb, Ws1, LazyOpen(Dot, 1), Ws, Opt(Lit("!")), Ws, Eol>>

\* classify.py line 132: ^(?P<actor>.+?)\s+set\s+\(\d+\)\s+.+?\(\s*Small\s+Tek\s+Teleporter\...
\* groups: actor = element 2, mode = element 23
RX_TEK_TELEPORTER_PRIVACY ==
    <<Bol, LazyOpen(Dot, 1), Ws1, Lit("set"), Ws1, Lit("("), Plus(D), Lit(")"), Ws1,
      LazyOpen(Dot, 1), Lit("("), Ws, Lit("small"), Ws1, Lit("tek"), Ws1,
      Lit("teleporter"), Ws, Lit(")"), Ws1, Lit("to"), Ws1,
      Cat(<<Lit("p"), Alt(<<Lit("ublic"), Lit("rivate")>>)>>), Wb>>

(***************************************************************************)
(* tribelog/classify.py: helpers and classify_message                      *)
(***************************************************************************)
\* Python's `a or b` on strings
Or(a, b) == IF a # "" THEN a ELSE b

_norm_spaces(s) == NormSpaces(s)

\* re.sub(r"[.!:,;\s]+$", "", s.strip()).strip()
_strip_trailing_punct(s) == Strip(RStrip(Strip(s), {".", "!", ":", ",", ";", " "}))

_clean_entity(s) == _strip_trailing_punct(StripYour(_norm_spaces(s)))

\* r"\s*\([^)]*\)\s*$": a trailing parenthesised annotation
RX_TRAILING_PAREN == <<Ws, Lit("("), Star(NotIn({")"})), Lit(")"), Ws, Eol>>

_clean_actor(s) ==
    LET t == _norm_spaces(s)
        p == ReSearch(RX_TRAILING_PAREN, t)
    IN  _strip_trailing_punct(IF p = <<>> THEN t ELSE Slice(t, 1, p[1]))

\* An environment variable that is not set
Unset == "<unset>"

_env_bool(v, default) ==
    IF v = Unset THEN default
    ELSE StrLower(Strip(v)) \in {"1", "true", "yes", "y", "on", "enable", "enabled"}

RECURSIVE SplitComma(_, _)
\* s.split(","): cur is the piece being collected
SplitComma(s, cur) ==
    IF s = "" THEN <<cur>>
    ELSE IF Head(s) = "," THEN <<cur>> \o SplitComma(Tail(s), "")
    ELSE SplitComma(Tail(s), cur \o Ch(s, 1))

RECURSIVE DedupFrom(_, _)
\* tuple(dict.fromkeys(parts))
DedupFrom(xs, seen) ==
    IF xs = <<>> THEN <<>>
    ELSE IF Head(xs) \in seen THEN DedupFrom(Tail(xs), seen)
    ELSE <<Head(xs)>> \o DedupFrom(Tail(xs), seen \cup {Head(xs)})

DEFAULT_CRIT_KEYWORDS ==
    "tek,vault,generator,replicator,teleporter,transmitter,turret,fridge,cryofridge"

_get_csv(raw, default_csv) ==
    LET s == IF raw # Unset THEN raw ELSE default_csv
        pieces == SplitComma(s, "")
        parts == [k \in 1..Len(pieces) |-> StrLower(Strip(pieces[k]))]
    IN  DedupFrom(SelectSeq(parts, LAMBDA q : q # ""), {})

_contains_any(haystack, needles) ==
    \E k \in 1..Len(needles) : needles[k] # "" /\ Contains(StrLower(haystack), needles[k])

\* r"\([^)]*\-\s*[^)]*\)"
RX_PLAYER_PAREN == <<Lit("("), Star(NotIn({")"})), Lit("-"), Ws, Star(NotIn({")"})), Lit(")")>>

_is_probably_player(victim) == ReSearch(RX_PLAYER_PAREN, victim) # <<>>

\* r"\s-\s*Lvl\s+\d+\s*\(" (the dino-template guard of line 337)
RX_DINO_TEMPLATE == <<In(SpaceSet), Lit("-"), Ws, Lit("lvl"), Ws1, Plus(D), Ws, Lit("(")>>

\* r"\bstarved\b" (line 386)
RX_STARVED_WORD == <<Wb, Lit("starved"), Wb>>

\* The inside of the optional "by <actor>" part of RX_REMOVED_FROM_TRIBE
RX_REMOVED_BY == <<Ws1, Lit("by"), Ws1, LazyOpen(Dot, 1), Eol>>

\* mr.group("actor") or "": the optional part is element 13 of the pattern
RemovedActor(m, p) ==
    LET part == Group(m, p, 13)
        q == ReMatch(RX_REMOVED_BY, part)
    IN  IF part = "" \/ q = <<>> THEN "" ELSE Group(part, q, 4)

Triple(category, severity, actor) ==
    [category |-> category, severity |-> severity, actor |-> actor]

\* The patterns the rules of classify_message consult, by name; the pattern
\* RX_WAS_KILLED is consulted with search (line 376) and with match (line 382)
Patterns ==
    [RX_AUTO_DECAY |-> RX_AUTO_DECAY, RX_DECAYED_DESTROYED |-> RX_DECAYED_DESTROYED,
     RX_YOUR_STRUCT_DECAYED |-> RX_YOUR_STRUCT_DECAYED, RX_ANTIMESH |-> RX_ANTIMESH,
     RX_TEK_TELEPORTER_PRIVACY |-> RX_TEK_TELEPORTER_PRIVACY,
     RX_ORP_PREVENTED |-> RX_ORP_PREVENTED, RX_CRYOPOD_RELEASED |-> RX_CRYOPOD_RELEASED,
     RX_BIRTH_HATCH |-> RX_BIRTH_HATCH, RX_TAMED_OFFICIAL |-> RX_TAMED_OFFICIAL,
     RX_CLAIMED_OFFICIAL |-> RX_CLAIMED_OFFICIAL, RX_STARVED |-> RX_STARVED,
     RX_FROZE |-> RX_FROZE, RX_CLAIMED |-> RX_CLAIMED, RX_UNCLAIMED |-> RX_UNCLAIMED,
     RX_TAMED |-> RX_TAMED, RX_UPLOADED |-> RX_UPLOADED, RX_DOWNLOADED |-> RX_DOWNLOADED,
     RX_TRANSFERRED |-> RX_TRANSFERRED, RX_JOIN_LEFT_TRIBE |-> RX_JOIN_LEFT_TRIBE,
     RX_KICKED_FROM_TRIBE |-> RX_KICKED_FROM_TRIBE,
     RX_PROMOTED_DEMOTED |-> RX_PROMOTED_DEMOTED, RX_TRIBE_RENAMED |-> RX_TRIBE_RENAMED,
     RX_ADDED_TO_TRIBE |-> RX_ADDED_TO_TRIBE, RX_LEFT_TRIBE |-> RX_LEFT_TRIBE,
     RX_REMOVED_FROM_TRIBE |-> RX_REMOVED_FROM_TRIBE,
     RX_PROMOTED_ADMIN |-> RX_PROMOTED_ADMIN, RX_OWNER_CHANGED |-> RX_OWNER_CHANGED,
     RX_SET_RANK_GROUP |-> RX_SET_RANK_GROUP,
     RX_YOUR_STRUCT_DEMOLISHED |-> RX_YOUR_STRUCT_DEMOLISHED,
     RX_DEMOLISHED |-> RX_DEMOLISHED, RX_ENEMY_DESTROYED |-> RX_ENEMY_DESTROYED,
     RX_DESTROYED |-> RX_DESTROYED, RX_DESTROYED_BY |-> RX_DESTROYED_BY,
     RX_TRIBEMEMBER_KILLED_BY |-> RX_TRIBEMEMBER_KILLED_BY,
     RX_PLAYER_KILLED_BY_PLAYER |-> RX_PLAYER_KILLED_BY_PLAYER,
     RX_YOUR_DINO_KILLED_BY_PLAYER |-> RX_YOUR_DINO_KILLED_BY_PLAYER,
     RX_YOUR_DINO_KILLED_BY_WILD |-> RX_YOUR_DINO_KILLED_BY_WILD,
     RX_YOUR_DINO_KILLED_ENV |-> RX_YOUR_DINO_KILLED_ENV,
     RX_YOUR_TRIBE_KILLED |-> RX_YOUR_TRIBE_KILLED,
     RX_WAS_KILLED_BY |-> RX_WAS_KILLED_BY, RX_WAS_KILLED |-> RX_WAS_KILLED,
     RX_WAS_KILLED_search |-> RX_WAS_KILLED, RX_CRYOPOD |-> RX_CRYOPOD,
     RX_STARVED_WORD |-> RX_STARVED_WORD]

\* The entries the rules consult with RX.search, the others with RX.match
Searched ==
    {"RX_AUTO_DECAY", "RX_DECAYED_DESTROYED", "RX_ANTIMESH", "RX_TEK_TELEPORTER_PRIVACY",
     "RX_UNCLAIMED", "RX_TAMED", "RX_TRANSFERRED", "RX_SET_RANK_GROUP",
     "RX_ENEMY_DESTROYED", "RX_DESTROYED", "RX_DESTROYED_BY", "RX_WAS_KILLED_search",
     "RX_CRYOPOD", "RX_STARVED_WORD"}

\* h[n]: the match of pattern n on the normalised message m, <<>> for None
Matches(m) ==
    [n \in DOMAIN Patterns |->
        IF n \in Searched THEN ReSearch(Patterns[n], m) ELSE ReMatch(Patterns[n], m)]

\* The operands of an `a or b or c` chain that yields the actor: a captured text to
\* be cleaned by _clean_actor or by _clean_entity, or a string as it is
A(text) == [clean |-> "actor", text |-> text]
E(text) == [clean |-> "entity", text |-> text]
S(text) == [clean |-> "none", text |-> text]

Cleaned(c) ==
    IF c.clean = "actor" THEN _clean_actor(c.text)
    ELSE IF c.clean = "entity" THEN _clean_entity(c.text)
    ELSE c.text

RECURSIVE FirstOf(_)
\* a or b or ...: the first operand that is not empty, the last one otherwise
FirstOf(cs) ==
    IF cs = <<>> THEN ""
    ELSE IF Len(cs) = 1 THEN Cleaned(cs[1])
    ELSE LET v == Cleaned(cs[1]) IN IF v # "" THEN v ELSE FirstOf(Tail(cs))

\* The tags of the membership and role rules (classify.py 246-298)
GovernanceCategories ==
    {"TRIBE_MEMBER_ADDED", "TRIBE_MEMBER_LEFT", "TRIBE_MEMBER_KICKED", "TRIBE_MEMBER_REMOVED",
     "TRIBE_RANK_CHANGED", "TRIBE_OWNERSHIP_CHANGED", "TRIBE_RENAMED"}

\* Every membership rule returning INFO
Hit_GovernanceInfo(category, severity, actors) ==
    [category |-> category,
     severity |-> IF category \in GovernanceCategories THEN "INFO" ELSE severity,
     actors |-> actors]

\* What a rule returns: the tags and the actor chain of its return statement
Hit(category, severity, actors) ==
    [category |-> category, severity |-> severity, actors |-> actors]

\* No rule of a group matched: the code falls through to the next statement
NoRule == Hit("", "", <<>>)

Environment == S("Environment")

\* lines 172-217
RulesWarning(m, h) ==
    IF h["RX_AUTO_DECAY"] # <<>> \/ h["RX_DECAYED_DESTROYED"] # <<>>
       \/ h["RX_YOUR_STRUCT_DECAYED"] # <<>>
    THEN Hit("AUTO_DECAY_DESTROYED", "WARNING",
             IF h["RX_YOUR_STRUCT_DECAYED"] # <<>>
             THEN <<E(Group(m, h["RX_YOUR_STRUCT_DECAYED"], 4)), Environment>>
             ELSE <<S(""), Environment>>)
    ELSE IF h["RX_ANTIMESH"] # <<>>
    THEN Hit("ANTIMESH_DESTROYED", "WARNING", <<Environment>>)
    ELSE IF h["RX_TEK_TELEPORTER_PRIVACY"] # <<>>
    THEN Hit("TEK_TELEPORTER_PRIVACY_CHANGED", "WARNING",
             <<A(Group(m, h["RX_TEK_TELEPORTER_PRIVACY"], 2))>>)
    ELSE IF h["RX_ORP_PREVENTED"] # <<>>
    THEN Hit("ORP_PREVENTED", "INFO", <<Environment>>)
    ELSE IF h["RX_CRYOPOD_RELEASED"] # <<>>
    THEN Hit("CRYOPOD_RELEASED", "INFO", <<E(Group(m, h["RX_CRYOPOD_RELEASED"], 4)), Environment>>)
    ELSE IF h["RX_BIRTH_HATCH"] # <<>>
    THEN Hit("BIRTH_HATCHED", "INFO", <<E(Group(m, h["RX_BIRTH_HATCH"], 4)), Environment>>)
    ELSE IF h["RX_TAMED_OFFICIAL"] # <<>>
    THEN Hit("TAME_TAMED", "SUCCESS",
             <<E(Group(m, h["RX_TAMED_OFFICIAL"], 10)), S("Your Tribe")>>)
    ELSE IF h["RX_CLAIMED_OFFICIAL"] # <<>>
    THEN Hit("TAME_CLAIMED", "SUCCESS",
             <<E(Group(m, h["RX_CLAIMED_OFFICIAL"], 10)), S("Your Tribe")>>)
    ELSE IF h["RX_STARVED"] # <<>>
    THEN Hit("TAME_STARVED", "WARNING", <<E(Group(m, h["RX_STARVED"], 2)), Environment>>)
    ELSE NoRule

\* lines 219-244
RulesInfo(m, h) ==
    IF h["RX_FROZE"] # <<>>
    THEN Hit("TAME_FROZE", "INFO", <<A(Group(m, h["RX_FROZE"], 2)), Environment>>)
    ELSE IF h["RX_CLAIMED"] # <<>>
    THEN Hit("TAME_CLAIMED", "SUCCESS", <<A(Group(m, h["RX_CLAIMED"], 2)), Environment>>)
    ELSE IF h["RX_UNCLAIMED"] # <<>>
    THEN Hit("TAME_UNCLAIMED", "INFO", <<Environment>>)
    ELSE IF h["RX_TAMED"] # <<>>
    THEN Hit("TAME_TAMED", "SUCCESS", <<Environment>>)
    ELSE IF h["RX_UPLOADED"] # <<>>
    THEN Hit("UPLOADED", "INFO", <<A(Group(m, h["RX_UPLOADED"], 2)), Environment>>)
    ELSE IF h["RX_DOWNLOADED"] # <<>>
    THEN Hit("DOWNLOADED", "INFO", <<A(Group(m, h["RX_DOWNLOADED"], 2)), Environment>>)
    ELSE IF h["RX_TRANSFERRED"] # <<>>
    THEN Hit("TRANSFERRED", "INFO", <<Environment>>)
    ELSE NoRule

\* lines 246-298
RulesTribe(m, h) ==
    IF h["RX_JOIN_LEFT_TRIBE"] # <<>>
    THEN Hit(IF StrLower(Strip(Group(m, h["RX_JOIN_LEFT_TRIBE"], 4))) = "joined"
             THEN "TRIBE_MEMBER_ADDED" ELSE "TRIBE_MEMBER_LEFT",
             "INFO", <<E(Group(m, h["RX_JOIN_LEFT_TRIBE"], 2)), Environment>>)
    ELSE IF h["RX_KICKED_FROM_TRIBE"] # <<>>
    THEN Hit("TRIBE_MEMBER_KICKED", "WARNING",
             <<A(Group(m, h["RX_KICKED_FROM_TRIBE"], 16)),
               E(Group(m, h["RX_KICKED_FROM_TRIBE"], 2)), Environment>>)
    ELSE IF h["RX_PROMOTED_DEMOTED"] # <<>>
    THEN Hit("TRIBE_RANK_CHANGED", "INFO", <<E(Group(m, h["RX_PROMOTED_DEMOTED"], 2)), Environment>>)
    ELSE IF h["RX_TRIBE_RENAMED"] # <<>>
    THEN Hit("TRIBE_RENAMED", "INFO", <<E(Group(m, h["RX_TRIBE_RENAMED"], 13)), Environment>>)
    ELSE IF h["RX_ADDED_TO_TRIBE"] # <<>>
    THEN Hit("TRIBE_MEMBER_ADDED", "INFO",
             <<A(Group(m, h["RX_ADDED_TO_TRIBE"], 16)),
               E(Group(m, h["RX_ADDED_TO_TRIBE"], 2)), Environment>>)
    ELSE IF h["RX_LEFT_TRIBE"] # <<>>
    THEN Hit("TRIBE_MEMBER_LEFT", "INFO", <<E(Group(m, h["RX_LEFT_TRIBE"], 2)), Environment>>)
    ELSE IF h["RX_REMOVED_FROM_TRIBE"] # <<>>
    THEN Hit("TRIBE_MEMBER_REMOVED", "CRITICAL",
             <<A(RemovedActor(m, h["RX_REMOVED_FROM_TRIBE"])),
               E(Group(m, h["RX_REMOVED_FROM_TRIBE"], 2)), Environment>>)
    ELSE IF h["RX_PROMOTED_ADMIN"] # <<>>
    THEN Hit("TRIBE_RANK_CHANGED", "INFO",
             <<A(Group(m, h["RX_PROMOTED_ADMIN"], 18)),
               E(Group(m, h["RX_PROMOTED_ADMIN"], 2)), Environment>>)
    ELSE IF h["RX_OWNER_CHANGED"] # <<>>
    THEN Hit("TRIBE_OWNERSHIP_CHANGED", "CRITICAL",
             <<E(Group(m, h["RX_OWNER_CHANGED"], 13)), Environment>>)
    ELSE IF h["RX_SET_RANK_GROUP"] # <<>>
    THEN Hit("TRIBE_RANK_CHANGED", "INFO", <<A(Group(m, h["RX_SET_RANK_GROUP"], 15)), Environment>>)
    ELSE NoRule

\* lines 316-323: the severity of a destroyed structure
StructureSeverity(m, penv) ==
    IF _env_bool(penv.tiered, FALSE)
    THEN IF _contains_any(m, _get_csv(penv.crit_kw, DEFAULT_CRIT_KEYWORDS))
         THEN "CRITICAL" ELSE "WARNING"
    ELSE "CRITICAL"

\* lines 300-325
RulesStructure(m, h, penv) ==
    IF h["RX_YOUR_STRUCT_DEMOLISHED"] # <<>>
    THEN Hit("STRUCTURE_DEMOLISHED", "INFO",
             <<A(Group(m, h["RX_YOUR_STRUCT_DEMOLISHED"], 12)), Environment>>)
    ELSE IF h["RX_DEMOLISHED"] # <<>>
    THEN Hit("STRUCTURE_DEMOLISHED", "INFO", <<A(Group(m, h["RX_DEMOLISHED"], 2)), Environment>>)
    ELSE IF h["RX_ENEMY_DESTROYED"] # <<>>
    THEN Hit("ENEMY_STRUCTURE_DESTROYED", "SUCCESS", <<Environment>>)
    ELSE IF h["RX_DESTROYED"] # <<>>
    THEN Hit("STRUCTURE_DESTROYED", StructureSeverity(m, penv),
             IF h["RX_DESTROYED_BY"] # <<>>
             THEN <<A(Group(m, h["RX_DESTROYED_BY"], 8)), Environment>>
             ELSE <<Environment, Environment>>)
    ELSE NoRule

\* line 337: the victim of RX_PLAYER_KILLED_BY_PLAYER does not look like a dino
NotDinoTemplate(victim) == ReSearch(RX_DINO_TEMPLATE, victim) = <<>>

\* lines 327-390
RulesKills(m, h) ==
    IF h["RX_TRIBEMEMBER_KILLED_BY"] # <<>>
    THEN Hit("TRIBEMEMBER_WAS_KILLED", "CRITICAL",
             <<A(Group(m, h["RX_TRIBEMEMBER_KILLED_BY"], 13)),
               E(Group(m, h["RX_TRIBEMEMBER_KILLED_BY"], 5)), Environment>>)
    ELSE IF h["RX_PLAYER_KILLED_BY_PLAYER"] # <<>>
            /\ NotDinoTemplate(_clean_entity(Group(m, h["RX_PLAYER_KILLED_BY_PLAYER"], 2)))
    THEN Hit("TRIBEMEMBER_WAS_KILLED", "CRITICAL",
             <<A(Group(m, h["RX_PLAYER_KILLED_BY_PLAYER"], 10)),
               E(Group(m, h["RX_PLAYER_KILLED_BY_PLAYER"], 2)), Environment>>)
    ELSE IF h["RX_YOUR_DINO_KILLED_BY_PLAYER"] # <<>>
    THEN Hit("TAME_DIED", "CRITICAL",
             <<A(Group(m, h["RX_YOUR_DINO_KILLED_BY_PLAYER"], 22)),
               E(Group(m, h["RX_YOUR_DINO_KILLED_BY_PLAYER"], 4)), Environment>>)
    ELSE IF h["RX_YOUR_DINO_KILLED_BY_WILD"] # <<>>
    THEN \* (wild or "Environment") if wild else (victim_name or "Environment")
         Hit("TAME_DIED", "CRITICAL",
             <<E(Group(m, h["RX_YOUR_DINO_KILLED_BY_WILD"], 24)),
               E(Group(m, h["RX_YOUR_DINO_KILLED_BY_WILD"], 4)), Environment>>)
    ELSE IF h["RX_YOUR_DINO_KILLED_ENV"] # <<>>
    THEN Hit("TAME_DIED", "WARNING", <<E(Group(m, h["RX_YOUR_DINO_KILLED_ENV"], 4)), Environment>>)
    ELSE IF h["RX_YOUR_TRIBE_KILLED"] # <<>>
    THEN Hit(IF _is_probably_player(_clean_entity(Group(m, h["RX_YOUR_TRIBE_KILLED"], 9)))
             THEN "TRIBE_KILLED_PLAYER" ELSE "TRIBE_KILLED_CREATURE",
             "CRITICAL", <<S("Your Tribe")>>)
    ELSE IF h["RX_WAS_KILLED_BY"] # <<>>
    THEN Hit("TAME_DIED", "CRITICAL",
             <<A(Group(m, h["RX_WAS_KILLED_BY"], 10)),
               E(Group(m, h["RX_WAS_KILLED_BY"], 2)), Environment>>)
    ELSE IF h["RX_WAS_KILLED_search"] # <<>>
    THEN IF h["RX_CRYOPOD"] # <<>>
         THEN Hit("CRYOPOD_DEATH", "WARNING", <<Environment>>)
         ELSE Hit(IF h["RX_STARVED_WORD"] # <<>> THEN "TAME_STARVED" ELSE "TAME_DIED",
                  "WARNING",
                  IF h["RX_WAS_KILLED"] # <<>>
                  THEN <<E(Group(m, h["RX_WAS_KILLED"], 2)), Environment>>
                  ELSE <<S(""), Environment>>)
    ELSE NoRule

\* The return statement classify_message reaches on the normalised message m, h
\* being Matches(m): the rule groups in the order of the source, NoRule when it
\* reaches the fallback
RuleOf(m, h, penv) ==
    LET r1 == RulesWarning(m, h)
        r2 == RulesInfo(m, h)
        r3 == RulesTribe(m, h)
        r4 == RulesStructure(m, h, penv)
    IN  IF r1 # NoRule THEN r1
        ELSE IF r2 # NoRule THEN r2
        ELSE IF r3 # NoRule THEN r3
        ELSE IF r4 # NoRule THEN r4
        ELSE RulesKills(m, h)

\* m = _norm_spaces(msg) (line 170) and the return statement reached (a set of one)
RuleReached(msg, penv) ==
    UNION {{RuleOf(m, h, penv) : h \in {Matches(m)}} : m \in {_norm_spaces(msg)}}

\* The triple of a return statement
Returned(r) ==
    IF r = NoRule THEN Triple("UNKNOWN", "INFO", "Environment")
    ELSE Triple(r.category, r.severity, FirstOf(r.actors))

\* classify_message: (category, severity, actor); penv holds the CLASSIFY_* variables
classify_message(msg, penv) == CHOOSE t \in {Returned(r) : r \in RuleReached(msg, penv)} : TRUE

(***************************************************************************)
(* db.py: compute_event_hash and Db.insert_events                          *)
(***************************************************************************)
RECURSIVE NatToStr(_)
\* str(int(n)) for n >= 0
NatToStr(n) == IF n < 10 THEN Ch(DIGITS, n + 1) ELSE NatToStr(n \div 10) \o Ch(DIGITS, (n % 10) + 1)

\* hashlib.sha1(s).hexdigest(): SHA-1 is not computed; the digest is the tagged
\* preimage, i.e. a digest function without collisions
sha1_hexdigest(s) == "sha1(" \o s \o ")"

\* " ".join((message or "").split()).strip().lower()
NormMessage_NoLower(message) == NormSpaces(message)

NormMessage(message) == StrLower(NormSpaces(message))

\* compute_event_hash: a is the record of the keyword arguments
HashNorm(a) ==
    Join(<<StrLower(Strip(a.server)), StrLower(Strip(a.tribe)), NatToStr(a.ark_day),
           Strip(a.ark_time), StrUpper(Strip(a.category)), NormMessage(a.message)>>, "|")

compute_event_hash(a) == sha1_hexdigest(HashNorm(a))

\* db.compute_event_hash_v2 is imported by classify.py (line 7) and called at lines
\* 421-429, but db.py does not define it; it is modelled from the specification:
\* applied only to a configured set of high-signal categories, SHA-256 over
\* (server, tribe, day, time, category, actor, normalised message). The aggressive
\* repair of the message is not followed: the message is normalised as for v1.
HighSignalCategories == {"TRIBEMEMBER_WAS_KILLED", "TAME_DIED", "STRUCTURE_DESTROYED"}

\* Python's None for a hash that is absent
NoHash == "<None>"

sha256_hexdigest(s) == "sha256(" \o s \o ")"

HashNormV2(a) ==
    Join(<<StrLower(Strip(a.server)), StrLower(Strip(a.tribe)), NatToStr(a.ark_day),
           Strip(a.ark_time), StrUpper(Strip(a.category)), StrLower(Strip(a.actor)),
           NormMessage(a.message)>>, "|")

compute_event_hash_v2(a) ==
    IF a.category \in HighSignalCategories THEN sha256_hexdigest(HashNormV2(a)) ELSE NoHash

\* The keyword arguments of the two hash calls (classify.py 411-429); actor is the
\* actor of line 408
HashCallArgs(r, server, tribe, ark_day, ark_time, message) ==
    [server |-> server, tribe |-> tribe, ark_day |-> ark_day, ark_time |-> ark_time,
     category |-> r.category, actor |-> Or(_clean_actor(r.actor), "Environment"),
     message |-> message]

\* ParsedEvent(...) of lines 433-447, h2 being the value stored as event_hash_v2
EventRecord(r, server, tribe, ark_day, ark_time, message, raw_line, h2) ==
    [server |-> server, tribe |-> tribe, ark_day |-> ark_day, ark_time |-> ark_time,
     severity |-> r.severity, category |-> r.category,
     actor |-> Or(_clean_actor(r.actor), "Environment"),
     message |-> _norm_spaces(message), raw_line |-> _norm_spaces(raw_line),
     event_hash |-> compute_event_hash(
         [server |-> server, tribe |-> tribe, ark_day |-> ark_day, ark_time |-> ark_time,
          category |-> r.category, message |-> message]),
     event_hash_v2 |-> h2]

\* The v2 hash stored for every category
ParsedEvent_V2Always(r, server, tribe, ark_day, ark_time, message, raw_line) ==
    EventRecord(r, server, tribe, ark_day, ark_time, message, raw_line,
                sha256_hexdigest(HashNormV2(
                    HashCallArgs(r, server, tribe, ark_day, ark_time, message))))

\* classify_event (classify.py 397-447) once classify_message returned the triple r:
\* the fields of ParsedEvent this model follows
ParsedEvent(r, server, tribe, ark_day, ark_time, message, raw_line) ==
    EventRecord(r, server, tribe, ark_day, ark_time, message, raw_line,
                compute_event_hash_v2(
                    HashCallArgs(r, server, tribe, ark_day, ark_time, message)))

classify_event(server, tribe, ark_day, ark_time, message, raw_line, penv) ==
    CHOOSE e \in {ParsedEvent(r, server, tribe, ark_day, ark_time, message, raw_line) :
                     r \in {classify_message(message, penv)}} : TRUE

\* A row of tribe_events: the two columns of the unique index
Row(tenant_id, event_hash) == [tenant_id |-> tenant_id, event_hash |-> event_hash]

\* An index on event_hash alone (the legacy tribe_events_event_hash_uq)
Conflicts_HashOnly(tbl, row) == \E k \in 1..Len(tbl) : tbl[k].event_hash = row.event_hash

\* _CREATE_EVENTS_UQ: a row conflicts when the table holds its (tenant_id, event_hash)
Conflicts(tbl, row) == \E k \in 1..Len(tbl) : tbl[k] = row

RECURSIVE InsertValues(_, _, _, _)
\* INSERT ... VALUES (...),(...) ON CONFLICT DO NOTHING RETURNING event_hash: the
\* value lists are taken in order, a conflicting one is skipped (also when the row
\* it conflicts with comes from the same statement); ret collects the RETURNING rows
InsertValues(tbl, tenant_id, hs, ret) ==
    IF hs = <<>> THEN [rows |-> tbl, returning |-> ret]
    ELSE IF Conflicts(tbl, Row(tenant_id, Head(hs)))
    THEN InsertValues(tbl, tenant_id, Tail(hs), ret)
    ELSE InsertValues(Append(tbl, Row(tenant_id, Head(hs))), tenant_id, Tail(hs),
                      Append(ret, Head(hs)))

Elems(xs) == {xs[k] : k \in 1..Len(xs)}

\* Db.insert_events: evs is the list of the events' event_hash values; the result
\* holds the table after the call and the list the call returns
insert_events(connected, tbl, evs, tenant_id) ==
    IF ~connected \/ evs = <<>> THEN [rows |-> tbl, returned |-> <<>>]
    ELSE LET st == InsertValues(tbl, tenant_id, evs, <<>>)
             inserted_hashes == Elems(st.returning)
         IN  [rows |-> st.rows,
              returned |-> SelectSeq(evs, LAMBDA h : h \in inserted_hashes)]

(***************************************************************************)
(* ocr/router.py: scoring helpers                                          *)
(***************************************************************************)
\* _RX_DAY_HEADER (used with match)
RX_DAY_HEADER ==
    <<Ws, DayWord, DaySep, Rep(D, 2, 6), Ws, In({",", ";", " "}), Ws, Rep(D, 1, 2),
      ClockSep, Rep(D, 1, 2), Opt(Cat(<<ClockSep, Rep(D, 2, 3)>>))>>

\* _RX_CRITICAL (used with search)
RX_CRITICAL ==
    <<Alt(<<Cat(<<Wb, Lit("was killed"), Wb>>), Cat(<<Wb, Lit("killed"), Wb>>),
            Cat(<<Wb, Lit("destroyed"), Wb>>), Cat(<<Wb, Lit("demolished"), Wb>>),
            Cat(<<Wb, Lit("auto"), Opt(Lit("-")), Lit("decay"), Wb>>),
            Cat(<<Wb, Lit("removed from the tribe"), Wb>>)>>)>>

\* texts the modelled engine can return
LnWall == "Day 12, 08:15:30: Your Thatch Wall was destroyed by Human!"
LnJoin == "Day 12, 08:16:00: Bob joined the tribe!"
LnRex == "Day 13, 1:00:00 Rex 5 killed"
LnRex6 == "Day 13, 1:00:00 Rex 6 killed"
LnBob == "Day 13, 2:00 Bob killed"

\* _RX_DAY_HEADER.match(t)
IsDayHeader(t) == ReMatch(RX_DAY_HEADER, t) # <<>>

_is_critical_text(t) == ReSearch(RX_CRITICAL, t) # <<>>

\* a recognized line: text, confidence in hundredths, bounding box
Line(text, conf, x0, y0) == [text |-> text, conf |-> conf, bbox |-> <<x0, y0, x0 + 1, y0 + 1>>]

_header_hits(ls) ==
    Cardinality({i \in 1..Len(ls) : Strip(ls[i].text) # "" /\ IsDayHeader(Strip(ls[i].text))})

_critical_hits(ls) ==
    Cardinality({i \in 1..Len(ls) : Strip(ls[i].text) # "" /\ _is_critical_text(Strip(ls[i].text))})

RECURSIVE SumConf(_)
SumConf(ls) == IF ls = <<>> THEN 0 ELSE Head(ls).conf + SumConf(Tail(ls))

\* mean_conf as the fraction num / den of hundredths
mean_conf(ls) == [num |-> SumConf(ls), den |-> IF Len(ls) < 1 THEN 1 ELSE Len(ls)]

\* a < b and a >= b on such fractions (den > 0)
FracLT(a, b) == a.num * b.den < b.num * a.den
FracGE(a, b) == ~FracLT(a, b)

\* key > best_key on (header_hits, critical_hits, mean_conf) tuples
KeyGT(a, b) ==
    \/ a.hits > b.hits
    \/ (a.hits = b.hits /\ a.crit > b.crit)
    \/ (a.hits = b.hits /\ a.crit = b.crit /\ FracLT(b.mc, a.mc))

KeyOf(ls) == [hits |-> _header_hits(ls), crit |-> _critical_hits(ls), mc |-> mean_conf(ls)]

\* best_key = (-1, -1, -1.0)
InitBestKey == [hits |-> -1, crit |-> -1, mc |-> [num |-> -100, den |-> 1]]

\* _joined_text
_joined_text(ls) ==
    Join([i \in 1..Len(SelectSeq(ls, LAMBDA l : Strip(l.text) # "")) |->
            Strip(SelectSeq(ls, LAMBDA l : Strip(l.text) # "")[i].text)], "\n")

LinesText(ls) ==
    LET ok == SelectSeq(ls, LAMBDA l : Strip(l.text) # "")
    IN  [i \in 1..Len(ok) |-> ok[i].text]

RECURSIVE KeepChars(_, _)
\* re.sub("[^...]+", "", s): the characters of s that belong to cs
KeepChars(s, cs) ==
    IF s = "" THEN ""
    ELSE (IF Head(s) \in cs THEN Head(s) ELSE "") \o KeepChars(Tail(s), cs)

\* _norm_line_key
_norm_line_key(s) == KeepChars(NormSpaces(StrLower(s)), LowerSet \cup DigitSet \cup {":"})

\* _RX_DAYTIME: element 4 is group 1 (day), element 6 is group 2 (time)
RX_DAYTIME ==
    <<Ws, DayWord, DaySep, Rep(D, 1, 6), Cat(<<Ws, Plus(In({",", "/", ";", " "}))>>),
      Cat(<<Rep(D, 1, 2), Lit(":"), Rep(D, 2, 2), Lit(":"), Rep(D, 2, 3)>>)>>

\* _fuzzy_event_key
_fuzzy_event_key(s) ==
    LET m == ReMatch(RX_DAYTIME, s)
    IN  IF m = <<>> THEN _norm_line_key(s)
        ELSE Group(s, m, 4) \o "|" \o Group(s, m, 6) \o "|"
             \o KeepChars(SubSeq(StrLower(s), m[Len(m)], Len(s)), LowerSet)


RECURSIVE SortLinesFrom(_, _)
\* list.sort(key=(bbox[1], bbox[0])): stable insertion of each line of ls into acc
SortLinesFrom(ls, acc) ==
    IF ls = <<>> THEN acc
    ELSE LET l == Head(ls)
             after == {k \in 1..Len(acc) :
                          \/ acc[k].bbox[2] < l.bbox[2]
                          \/ (acc[k].bbox[2] = l.bbox[2] /\ acc[k].bbox[1] <= l.bbox[1])}
             n == Cardinality(after)
         IN  SortLinesFrom(Tail(ls), SubSeq(acc, 1, n) \o <<l>> \o SubSeq(acc, n + 1, Len(acc)))

\* variant of SortLines that keeps the order of appending
SortLines_AsAppended(ls) == ls

SortLines(ls) == SortLinesFrom(ls, <<>>)

CandKey(c) == [hits |-> c.header_hits, crit |-> c.critical_hits, mc |-> c.mean_conf]

RECURSIVE SortCandsFrom(_, _)
\* sorted(candidates, key=(header_hits, critical_hits, mean_conf), reverse=True): stable
SortCandsFrom(cs, acc) ==
    IF cs = <<>> THEN acc
    ELSE LET c == Head(cs)
             n == Cardinality({k \in 1..Len(acc) : ~KeyGT(CandKey(c), CandKey(acc[k]))})
         IN  SortCandsFrom(Tail(cs), SubSeq(acc, 1, n) \o <<c>> \o SubSeq(acc, n + 1, Len(acc)))

SortCands(cs) == SortCandsFrom(cs, <<>>)

(***************************************************************************)
(* ocr/router.py: extract_text                                             *)
(***************************************************************************)
VARIABLES
    env,            \* fast flag, OCR_* environment settings and engine hint of the call
    all_variants,   \* names returned by _variant_images, in generation order
    variants,       \* names the loop will attempt (ordered, capped in fast mode)
    vi,             \* position of the loop in variants
    best,           \* <<>> for None, <<b>> for the dictionary b
    best_key,
    candidates,
    merged,
    rpc,            \* position of the call
    result,         \* <<>> until extract_text returned, then <<dictionary>>
    log             \* history: one entry per engine invocation

RouterVars ==
    <<env, all_variants, variants, vi, best, best_key, candidates, merged, rpc, result, log>>

VARIABLES
    lines,      \* the list handed to stitch_wrapped_lines or parse_header_lines
    si,         \* position of the loop in lines
    out,        \* out of stitch_wrapped_lines
    events,     \* out of parse_header_lines
    ppc         \* position of the call

ParserVars == <<lines, si, out, events, ppc>>

VARIABLES
    cmsg,       \* the message handed to the classifier
    cenv,       \* CLASSIFY_* environment variables of the process
    cres,       \* what the call returned (<<>> while it has not returned)
    cpc         \* position of the call

ClassifierVars == <<cmsg, cenv, cres, cpc>>

VARIABLES
    hargs,      \* the arguments of two calls of compute_event_hash
    hres        \* their results ("" while a call has not returned)

HashVars == <<hargs, hres>>

VARIABLES
    _pool,      \* Db._pool is set (the store is connected)
    rows,       \* table tribe_events, in insertion order
    reqs,       \* the ingest requests in flight
    alerts      \* events handed to _post_events_background, in order

DbVars == <<_pool, rows, reqs, alerts>>

VARIABLES
    ehint,      \* engine_hint of a call of extract_text ("" when make_extractor is called directly)
    ename,      \* the name handed to make_extractor
    eloaded,    \* <<imported, installed>>: PPOCRExtractor was imported; rapidocr_onnxruntime is installed
    emade,      \* <<>> until make_extractor returned or raised, then <<outcome>>
    elines,     \* what the call of run did (<<>> until then)
    epc         \* position of the call

EngineVars == <<ehint, ename, eloaded, emade, elines, epc>>

VARIABLES
    nlines,     \* the argument of normalize: the lines of one engine run
    nout,       \* out, the list normalize builds
    ni,         \* position of the for loop in nlines
    npc         \* position of the call

NormVars == <<nlines, nout, ni, npc>>

VARIABLES
    tenant,     \* the Tenant of the request (its ping policy)
    settings,   \* the Settings of the service
    client,     \* <<critical_ping form field, X-Client-Critical-Ping header>>
    webhook,    \* the DiscordWebhookClient of the tenant, or none
    to_post,    \* inserted, the events handed to _post_events_background
    sent,       \* the payloads handed to the webhook, in order
    posted,     \* the counter _post_events_background returns
    postpc      \* position of the call

PostVars == <<tenant, settings, client, webhook, to_post, sent, posted, postpc>>

\* the components added to the five above
ExtraVars == <<EngineVars, NormVars, PostVars>>

vars == <<RouterVars, ParserVars, ClassifierVars, HashVars, DbVars, ExtraVars>>

\* the variables of the components other than the one that takes a step
NotRouter == <<ParserVars, ClassifierVars, HashVars, DbVars, ExtraVars>>
NotParser == <<RouterVars, ClassifierVars, HashVars, DbVars, ExtraVars>>
NotClassifier == <<RouterVars, ParserVars, HashVars, DbVars, ExtraVars>>
NotHash == <<RouterVars, ParserVars, ClassifierVars, DbVars, ExtraVars>>
NotDb == <<RouterVars, ParserVars, ClassifierVars, HashVars, ExtraVars>>
NotEngine == <<RouterVars, ParserVars, ClassifierVars, HashVars, DbVars, NormVars, PostVars>>
NotNorm == <<RouterVars, ParserVars, ClassifierVars, HashVars, DbVars, EngineVars, PostVars>>
NotPost == <<RouterVars, ParserVars, ClassifierVars, HashVars, DbVars, EngineVars, NormVars>>

\* _variant_images: the names it yields, with and without the low-contrast variants
VariantNames(lowc) ==
    IF lowc
    THEN <<"raw", "lowc_raw", "lowc_maxrgb", "redmag_mask", "lowc_redmag", "max_rgb",
           "rb_minus_g", "clahe", "enhanced", "hdr_norm", "ark_ui", "binary", "inverted">>
    ELSE <<"raw", "redmag_mask", "max_rgb", "rb_minus_g", "clahe", "enhanced",
           "hdr_norm", "ark_ui", "binary", "inverted">>

_variant_images(lowc) == VariantNames(lowc)

preferred ==
    <<"raw", "redmag_mask", "rb_minus_g", "max_rgb", "clahe", "enhanced", "hdr_norm",
      "ark_ui", "binary", "inverted">>

\* preferred.index(name) if name in preferred else 999
PrefRank(name) ==
    IF \E k \in 1..Len(preferred) : preferred[k] = name
    THEN (CHOOSE k \in 1..Len(preferred) : preferred[k] = name) - 1
    ELSE 999

RECURSIVE SortVariantsFrom(_, _)
\* variants.sort(key=preferred.index ...): stable
SortVariantsFrom(vs, acc) ==
    IF vs = <<>> THEN acc
    ELSE LET n == Cardinality({k \in 1..Len(acc) : PrefRank(acc[k]) <= PrefRank(Head(vs))})
         IN  SortVariantsFrom(Tail(vs),
                              SubSeq(acc, 1, n) \o <<Head(vs)>> \o SubSeq(acc, n + 1, Len(acc)))

Min(a, b) == IF a < b THEN a ELSE b
Max(a, b) == IF a > b THEN a ELSE b

\* variant of CapVariants that applies no cap
CapVariants_Uncapped(vs, fast, try_max) == vs

\* variants[: max(1, min(len(variants), try_max))] in fast mode
CapVariants(vs, fast, try_max) ==
    IF fast THEN SubSeq(vs, 1, Min(Len(vs), Max(1, Min(Len(vs), try_max)))) ELSE vs

\* engines chosen from the hint
EnginesFor(hint) ==
    IF hint \in {"ppocr", "rapidocr", "paddle"} THEN <<"ppocr">> ELSE <<"tesseract">>

\* OCR_ACCEPT_HEADER_HITS, OCR_ACCEPT_CONF, OCR_REDMAG_MIN_CONF, OCR_RBMG_MIN_CONF
\* (defaults; confidences in hundredths)
accept_hits == 1
accept_conf == 45
REDMAG_MIN_CONF == 30
RBMG_MIN_CONF == 30

\* number of variants the loop is followed through in thorough mode
MaxAttempts == 3

\* what one invocation of _run_engine can do: raise (building the extractor,
\* running it, or normalizing), or return a list of normalized lines
EngineOutputs ==
    { [kind |-> "raise", lines |-> <<>>],
      [kind |-> "lines", lines |-> <<>>],
      [kind |-> "lines", lines |-> <<Line(LnWall, 80, 10, 10), Line(LnJoin, 60, 10, 30)>>],
      [kind |-> "lines", lines |-> <<Line(LnWall, 70, 10, 10)>>],
      [kind |-> "lines", lines |-> <<Line("xx yy", 90, 5, 50)>>],
      [kind |-> "lines", lines |-> <<Line(LnRex, 50, 10, 20), Line(LnRex6, 40, 10, 21),
                                     Line(LnBob, 10, 10, 70)>>],
      [kind |-> "lines", lines |-> <<Line("Rex killed", 20, 12, 20)>>] }

\* variant of _try_run without the except clause
_try_run_reraise(o) == [escaped |-> o.kind = "raise", lines |-> o.lines]

\* try: lines = _run_engine(...) except Exception: continue / return 0
\* escaped tells whether the exception leaves extract_text
_try_run(o) ==
    IF o.kind = "raise" THEN [escaped |-> FALSE, lines |-> <<>>]
    ELSE [escaped |-> FALSE, lines |-> o.lines]

\* variant of Sentinel that keeps a confidence
Sentinel_conf ==
    [engine |-> "none", variant |-> "none", conf |-> [num |-> 100, den |-> 1], lines |-> <<>>,
     lines_text |-> <<>>, text |-> "", candidates |-> <<>>]

Sentinel ==
    [engine |-> "none", variant |-> "none", conf |-> [num |-> 0, den |-> 1], lines |-> <<>>,
     lines_text |-> <<>>, text |-> "", candidates |-> <<>>]

Candidate(eng, vname, ls) ==
    [engine |-> eng, variant |-> vname, header_hits |-> _header_hits(ls),
     critical_hits |-> _critical_hits(ls), mean_conf |-> mean_conf(ls), line_count |-> Len(ls)]

BestOf(eng, vname, ls) ==
    [engine |-> eng, variant |-> vname, conf |-> mean_conf(ls),
     lines |-> [i \in 1..Len(ls) |-> [text |-> ls[i].text, conf |-> ls[i].conf, bbox |-> ls[i].bbox]],
     lines_text |-> LinesText(ls), text |-> _joined_text(ls)]

\* the early exit of the variant loop
EarlyAccept(fast, b, k) ==
    fast /\ b # <<>> /\ (k.hits >= accept_hits \/ FracGE(k.mc, [num |-> accept_conf, den |-> 1]))

\* variant of Improves: key >= best_key
Improves_OnTie(key, bkey) == ~KeyGT(bkey, key)

\* key > best_key
Improves(key, bkey) == KeyGT(key, bkey)

LogCall(l, phase, o) ==
    [calls |-> l.calls + 1,
     loop_lines |-> l.loop_lines + (IF phase = "loop" /\ o.kind = "lines" /\ o.lines # <<>> THEN 1 ELSE 0),
     merge_calls |-> l.merge_calls + (IF phase = "merge" THEN 1 ELSE 0),
     last |-> IF o.kind = "raise" THEN "raise" ELSE IF o.lines = <<>> THEN "empty" ELSE "lines"]

\* one iteration of "for vname, gray in variants" (engines holds one engine)
Attempt ==
    /\ rpc = "loop"
    /\ \E o \in EngineOutputs : \E key \in {KeyOf(_try_run(o).lines)} :
         LET vname == variants[vi]
             eng == EnginesFor(env.hint)[1]
             r == _try_run(o)
             has == r.lines # <<>>
             better == has /\ Improves(key, best_key)
             nbest == IF better THEN <<BestOf(eng, vname, r.lines)>> ELSE best
             nkey == IF better THEN key ELSE best_key
             last == vi + 1 > Len(variants)
         IN  /\ log' = LogCall(log, "loop", o)
             /\ IF r.escaped
                THEN /\ rpc' = "raised"
                     /\ UNCHANGED <<vi, best, best_key, candidates>>
                ELSE /\ best' = nbest
                     /\ best_key' = nkey
                     /\ candidates' = IF has THEN Append(candidates, Candidate(eng, vname, r.lines))
                                      ELSE candidates
                     /\ vi' = vi + 1
                     /\ rpc' = IF last \/ EarlyAccept(env.fast, nbest, nkey) THEN "select" ELSE "loop"
    /\ UNCHANGED <<env, all_variants, variants, merged, result>>
    /\ UNCHANGED NotRouter

\* if best is None: return the sentinel; else attach the sorted candidates
Select ==
    /\ rpc = "select"
    /\ IF best = <<>>
       THEN /\ result' = <<Sentinel>>
            /\ rpc' = "done"
            /\ best' = best
       ELSE /\ best' = <<best[1] @@ [candidates |-> SortCands(candidates)]>>
            /\ rpc' = "merge_redmag"
            /\ result' = result
    /\ UNCHANGED <<env, all_variants, variants, vi, best_key, candidates, merged, log>>
    /\ UNCHANGED NotRouter

RECURSIVE MergeLoop(_, _, _, _, _)
\* the loop "for ln in other_lines" of _merge_from: the lines of best after it
MergeLoop(other, blines, seen, require_critical, min_conf) ==
    IF other = <<>> THEN blines
    ELSE LET ln == Head(other)
             t == Strip(ln.text)
             fk == _fuzzy_event_key(t)
             skip == \/ ln.conf < min_conf
                     \/ t = ""
                     \/ ~IsDayHeader(t)
                     \/ (require_critical /\ ~_is_critical_text(t))
                     \/ fk \in seen
         IN  IF skip THEN MergeLoop(Tail(other), blines, seen, require_critical, min_conf)
             ELSE MergeLoop(Tail(other),
                            Append(blines, [text |-> t, conf |-> ln.conf, bbox |-> ln.bbox]),
                            seen \cup {fk}, require_critical, min_conf)

\* _merge_from runs the engine only for a variant that exists and is not best's
MergeRuns(b, vname) ==
    b.variant # vname /\ \E k \in 1..Len(all_variants) : all_variants[k] = vname

\* variant of _merge_from that starts from an empty set of seen keys
_merge_from_NoSeen(b, o, require_critical, min_conf) ==
    LET r == _try_run(o)
    IN  IF r.lines = <<>> THEN b
        ELSE [b EXCEPT !.lines = MergeLoop(r.lines, b.lines, {}, require_critical, min_conf)]

\* _merge_from once the engine returned o: the dictionary best afterwards
_merge_from(b, o, require_critical, min_conf) ==
    LET r == _try_run(o)
        seen == {_fuzzy_event_key(b.lines[k].text) : k \in {j \in 1..Len(b.lines) : b.lines[j].text # ""}}
    IN  IF r.lines = <<>> THEN b
        ELSE [b EXCEPT !.lines = MergeLoop(r.lines, b.lines, seen, require_critical, min_conf)]

\* one merge pass of extract_text for variant vname
MergePass(vname, enabled, require_critical, min_conf, nextpc) ==
    /\ IF enabled /\ MergeRuns(best[1], vname)
       THEN \E o \in EngineOutputs :
              \E nb \in {_merge_from(best[1], o, require_critical, min_conf)} :
                  /\ log' = LogCall(log, "merge", o)
                  /\ IF _try_run(o).escaped
                     THEN rpc' = "raised" /\ UNCHANGED <<best, merged>>
                     ELSE /\ best' = <<nb>>
                          /\ merged' = IF Len(nb.lines) > Len(best[1].lines)
                                       THEN Append(merged, vname) ELSE merged
                          /\ rpc' = nextpc
       ELSE /\ rpc' = nextpc
            /\ UNCHANGED <<best, merged, log>>
    /\ UNCHANGED <<env, all_variants, variants, vi, best_key, candidates, result>>
    /\ UNCHANGED NotRouter

MergeRedmag ==
    /\ rpc = "merge_redmag"
    /\ MergePass("redmag_mask", env.merge_redmag, FALSE, REDMAG_MIN_CONF, "merge_rbmg")

MergeRbMinusG ==
    /\ rpc = "merge_rbmg"
    /\ MergePass("rb_minus_g", env.merge_rbmg, FALSE, RBMG_MIN_CONF, "finish")

\* if merged: sort the lines and rebuild lines_text and text; return best
Finish ==
    /\ rpc = "finish"
    /\ LET b == best[1]
           ls == SortLines(b.lines)
           txt == [i \in 1..Len(ls) |-> ls[i].text]
           nb == IF merged = <<>> THEN b
                 ELSE [b EXCEPT !.lines = ls, !.lines_text = txt, !.text = Join(txt, "\n")]
                      @@ [merged_variants |-> merged]
       IN  /\ best' = <<nb>>
           /\ result' = <<nb>>
    /\ rpc' = "done"
    /\ UNCHANGED <<env, all_variants, variants, vi, best_key, candidates, merged, log>>
    /\ UNCHANGED NotRouter

\* the settings one call of extract_text runs under
Envs ==
    {e \in [fast : BOOLEAN, try_max : {0, 2, 3}, hint : {"auto", "ppocr"}, lowc : BOOLEAN,
            merge_redmag : BOOLEAN, merge_rbmg : BOOLEAN] :
        /\ ~e.fast => (e.try_max = 2 /\ e.hint = "auto" /\ ~e.lowc /\ e.merge_redmag = e.merge_rbmg)
        /\ e.hint = "ppocr" => (e.try_max = 2 /\ ~e.lowc)
        /\ e.lowc => (e.merge_redmag /\ e.merge_rbmg)}

\* the variants the loop is followed through
LoopVariants(vs) == SubSeq(vs, 1, Min(Len(vs), MaxAttempts))

RouterInit ==
    /\ env \in Envs
    /\ all_variants = _variant_images(env.lowc)
    /\ variants = LoopVariants(CapVariants(SortVariantsFrom(all_variants, <<>>), env.fast, env.try_max))
    /\ vi = 1
    /\ best = <<>>
    /\ best_key = InitBestKey
    /\ candidates = <<>>
    /\ merged = <<>>
    /\ rpc = "loop"
    /\ result = <<>>
    /\ log = [calls |-> 0, loop_lines |-> 0, merge_calls |-> 0, last |-> "none"]

RouterNext == Attempt \/ Select \/ MergeRedmag \/ MergeRbMinusG \/ Finish

C2_ExceptionIsZeroLines ==
    [][(log'.calls = log.calls + 1 /\ log'.last = "raise") =>
          (rpc' # "raised" /\ UNCHANGED <<best, best_key, candidates, merged, result>>)]_vars

\* extract_text returned a result although its last invocation, in a merge pass, raised
C2_Witness ==
    /\ rpc = "done"
    /\ log.last = "raise"
    /\ log.merge_calls > 0
    /\ result # <<>>
    /\ result[1].engine # "none"

MaxLines == 3
MaxParseLines == 2

ListsOver(pool, n) == UNION {[1..k -> pool] : k \in 0..n}

\* for raw in lines: ...
StitchStep ==
    /\ ppc = "stitch"
    /\ si <= Len(lines)
    /\ out' = StitchLine(out, lines[si])
    /\ si' = si + 1
    /\ UNCHANGED <<lines, events, ppc>>
    /\ UNCHANGED NotParser

\* return out
StitchReturn ==
    /\ ppc = "stitch"
    /\ si > Len(lines)
    /\ ppc' = "stitched"
    /\ UNCHANGED <<lines, si, out, events>>
    /\ UNCHANGED NotParser

\* for s in lines: ... out.append({...})
ParseStep ==
    /\ ppc = "parse"
    /\ si <= Len(lines)
    /\ events' = events \o ParseOne(lines[si])
    /\ si' = si + 1
    /\ UNCHANGED <<lines, out, ppc>>
    /\ UNCHANGED NotParser

\* out = _merge_starved_killed_pairs(out)
PassStarved ==
    /\ ppc = "parse"
    /\ si > Len(lines)
    /\ events' = _merge_starved_killed_pairs(events)
    /\ ppc' = "merge"
    /\ UNCHANGED <<lines, si, out>>
    /\ UNCHANGED NotParser

\* out = _merge_same_timestamp_fragments(out)
PassMerge ==
    /\ ppc = "merge"
    /\ events' = _merge_same_timestamp_fragments(events)
    /\ ppc' = "noise"
    /\ UNCHANGED <<lines, si, out>>
    /\ UNCHANGED NotParser

\* out = _drop_noise_events(out)
PassNoise ==
    /\ ppc = "noise"
    /\ events' = _drop_noise_events(events)
    /\ ppc' = "prune"
    /\ UNCHANGED <<lines, si, out>>
    /\ UNCHANGED NotParser

\* out = _drop_fragment_substrings(out); return out
PassPrune ==
    /\ ppc = "prune"
    /\ events' = _drop_fragment_substrings(events)
    /\ ppc' = "parsed"
    /\ UNCHANGED <<lines, si, out>>
    /\ UNCHANGED NotParser

StitchInit ==
    /\ lines \in ListsOver(StitchPool, MaxLines)
    /\ si = 1
    /\ out = <<>>
    /\ events = <<>>
    /\ ppc = "stitch"

ParseInit ==
    /\ lines \in ListsOver(ParsePool, MaxParseLines)
    /\ si = 1
    /\ out = <<>>
    /\ events = <<>>
    /\ ppc = "parse"

StitchNext == StitchStep \/ StitchReturn

ParseNext == ParseStep \/ PassStarved \/ PassMerge \/ PassNoise \/ PassPrune

(***************************************************************************)
(* tribelog/classify.py as steps: one call of classify_message or of       *)
(* classify_event on a message                                             *)
(***************************************************************************)
ClassifySubjects ==
    {"Bob", "Your Rex - Lvl 5 (Rex)", "(a)", "Alice (Clone)", "Your Tek Turret", "!"}

ClassifyPredicates ==
    {" set (12) Home (Small Tek Teleporter) to private", " joined the tribe!",
     " was killed!", " was killed by Carl - Lvl 10 (Red)!", " was killed by a Raptor - Lvl 10!",
     " froze Rex - Lvl 5 (Rex)", " starved to death!", " was destroyed by Human (C4)!",
     " was destroyed!", " demolished a 'Stone Wall'!", " claimed 'Rex'!", " uploaded a Rex",
     " was removed from the Tribe by Al!", " was kicked from the tribe by Al!",
     " was promoted to Admin!", " decayed and was destroyed!", " says hello",
     " was killed in a cryopod", " destroyed their 'Wall'", " was released from a Cryopod!"}

ClassifyFixed ==
    {"", "An attack was prevented by Offline Raid Protection!",
     "Your Tribe Tamed a Rex - Lvl 20!", "Your Tribe killed Bob - Lvl 3 (Red - Tribe)!",
     "Your Tribe killed Milk - Lvl 277 (Winter Drakeling)!", "Tribe Owner was changed to Bob!",
     "Tribe Name was changed to X!", "A Rex was born!", "Anti-mesh destroyed Rex",
     "Your Tribe Claimed a Rex - Lvl 4 (Rex)!", "Bob unclaimed Rex", "Bob transferred x",
     "Bob downloaded a Rex", "Bob left the Tribe", "Bob was set to Rank Group Admin by Al!",
     "Your Snow Owl - Lvl 286 was killed!", "Your Metal Foundation was auto-decay destroyed!",
     "Your Wood Wall was destroyed by Al (Tek)!"}

ClassifyPool == {s \o q : s \in ClassifySubjects, q \in ClassifyPredicates} \cup ClassifyFixed

ClassifyEnvs ==
    {[tiered |-> Unset, crit_kw |-> Unset], [tiered |-> "1", crit_kw |-> Unset],
     [tiered |-> "TRUE ", crit_kw |-> "Wall, REX"]}

\* The header fields classify_event is called with
EventServer == "Ragnarok"
EventTribe == "Alpha"
EventTime == "08:15:30"

\* classify_message(cmsg), called on its own (selftest.py 29-31)
ClassifyMessage ==
    /\ cpc = "call"
    /\ cres' = classify_message(cmsg, cenv)
    /\ cpc' = "message"
    /\ UNCHANGED <<cmsg, cenv>>
    /\ UNCHANGED NotClassifier

\* classify_event(message = cmsg, ...) (api_main.py 359-367)
ClassifyEvent ==
    /\ cpc = "call"
    /\ \E day \in {12, 13} :
          cres' = classify_event(EventServer, EventTribe, day, EventTime, cmsg, cmsg, cenv)
    /\ cpc' = "event"
    /\ UNCHANGED <<cmsg, cenv>>
    /\ UNCHANGED NotClassifier

ClassifyInit ==
    /\ cmsg \in ClassifyPool
    /\ cenv \in ClassifyEnvs
    /\ cres = <<>>
    /\ cpc = "call"

ClassifyNext == ClassifyMessage \/ ClassifyEvent

(***************************************************************************)
(* db.py as steps: two calls of compute_event_hash                         *)
(***************************************************************************)
HashArgs ==
    [server : {"Ragnarok", " ragnarok "}, tribe : {"Alpha", "alpha  "}, ark_day : {12, 13},
     ark_time : {"08:15:30"}, category : {"UNKNOWN", " unknown"},
     message : {"Bob  joined the tribe!", " bob joined the Tribe!", "Bob left the tribe!"}]

\* call k of compute_event_hash returns
ComputeEventHash ==
    /\ \E k \in 1..2 :
          /\ hres[k] = ""
          /\ hres' = [hres EXCEPT ![k] = compute_event_hash(hargs[k])]
    /\ UNCHANGED hargs
    /\ UNCHANGED NotHash

HashInit ==
    /\ hargs \in HashArgs \X HashArgs
    /\ hres = <<"", "">>

HashNext == ComputeEventHash

(***************************************************************************)
(* api_main.py _ingest_screenshot_impl from the insert on: concurrent       *)
(* requests against one store                                              *)
(***************************************************************************)
NumReqs == 2

Tenants == {1, 2}

\* event_hash values of the events of one request, in order
Batches == {<<"h1">>, <<"h2">>, <<"h1", "h1">>, <<"h1", "h2">>}

\* rows of tribe_events before the requests arrive
StoredBefore == {<<>>, <<Row(1, "h1")>>}

\* A request that reached the insert.  post_on: allow_post and
\* tenant.log_posting_enabled and webhook is not None (line 384); before and added
\* record the table at the call and the number of rows the call inserted
Request(tenant_id, evs, post_on) ==
    [tenant_id |-> tenant_id, events |-> evs, post_on |-> post_on, pc |-> "insert",
     before |-> <<>>, added |-> 0, inserted |-> <<>>]

\* inserted = await app.state.db.insert_events(events, tenant_id=tenant.id)
IngestInsert ==
    /\ \E r \in 1..Len(reqs) :
          /\ reqs[r].pc = "insert"
          /\ LET res == insert_events(_pool, rows, reqs[r].events, reqs[r].tenant_id)
             IN  /\ rows' = res.rows
                 /\ reqs' = [reqs EXCEPT ![r].pc = "post", ![r].before = rows,
                                         ![r].added = Len(res.rows) - Len(rows),
                                         ![r].inserted = res.returned]
    /\ UNCHANGED <<_pool, alerts>>
    /\ UNCHANGED NotDb

\* the posting part (lines 384-398): inserted goes to _post_events_background
IngestPost ==
    /\ \E r \in 1..Len(reqs) :
          /\ reqs[r].pc = "post"
          /\ reqs' = [reqs EXCEPT ![r].pc = "done"]
          /\ alerts' =
                IF reqs[r].post_on /\ reqs[r].inserted # <<>>
                THEN alerts \o [k \in 1..Len(reqs[r].inserted) |->
                                  [req |-> r, tenant_id |-> reqs[r].tenant_id,
                                   event_hash |-> reqs[r].inserted[k]]]
                ELSE alerts
    /\ UNCHANGED <<_pool, rows>>
    /\ UNCHANGED NotDb

DbInit ==
    /\ _pool \in BOOLEAN
    /\ rows \in StoredBefore
    /\ reqs \in [1..NumReqs -> {Request(t, b, p) : t \in Tenants, b \in Batches, p \in BOOLEAN}]
    /\ alerts = <<>>

DbNext == IngestInsert \/ IngestPost

(***************************************************************************)
(* Specifications: one per component, the other components at rest         *)
(***************************************************************************)
RouterIdle ==
    /\ env = [fast |-> FALSE, try_max |-> 2, hint |-> "auto", lowc |-> FALSE,
              merge_redmag |-> TRUE, merge_rbmg |-> TRUE]
    /\ all_variants = <<>>
    /\ variants = <<>>
    /\ vi = 1
    /\ best = <<>>
    /\ best_key = InitBestKey
    /\ candidates = <<>>
    /\ merged = <<>>
    /\ rpc = "idle"
    /\ result = <<>>
    /\ log = [calls |-> 0, loop_lines |-> 0, merge_calls |-> 0, last |-> "none"]

ParserIdle ==
    /\ lines = <<>>
    /\ si = 1
    /\ out = <<>>
    /\ events = <<>>
    /\ ppc = "idle"

ClassifierIdle ==
    /\ cmsg = ""
    /\ cenv = [tiered |-> Unset, crit_kw |-> Unset]
    /\ cres = <<>>
    /\ cpc = "idle"

HashIdle ==
    /\ hargs = <<>>
    /\ hres = <<>>

DbIdle ==
    /\ _pool = FALSE
    /\ rows = <<>>
    /\ reqs = <<>>
    /\ alerts = <<>>

EngineIdle ==
    /\ ehint = ""
    /\ ename = ""
    /\ eloaded = <<TRUE, TRUE>>
    /\ emade = <<>>
    /\ elines = <<>>
    /\ epc = "idle"

NormIdle ==
    /\ nlines = <<>>
    /\ nout = <<>>
    /\ ni = 1
    /\ npc = "idle"

PostIdle ==
    /\ tenant = <<>>
    /\ settings = <<>>
    /\ client = <<>>
    /\ webhook = ""
    /\ to_post = <<>>
    /\ sent = <<>>
    /\ posted = 0
    /\ postpc = "idle"

ExtraIdle == EngineIdle /\ NormIdle /\ PostIdle

InitClassify ==
    ClassifyInit /\ RouterIdle /\ ParserIdle /\ HashIdle /\ DbIdle /\ ExtraIdle
SpecClassify == InitClassify /\ [][ClassifyNext]_vars

InitHash == HashInit /\ RouterIdle /\ ParserIdle /\ ClassifierIdle /\ DbIdle /\ ExtraIdle
SpecHash == InitHash /\ [][HashNext]_vars

InitDb == DbInit /\ RouterIdle /\ ParserIdle /\ ClassifierIdle /\ HashIdle /\ ExtraIdle
SpecDb == InitDb /\ [][DbNext]_vars

InitRouter == RouterInit /\ ParserIdle /\ ClassifierIdle /\ HashIdle /\ DbIdle /\ ExtraIdle
SpecRouter == InitRouter /\ [][RouterNext]_vars

InitStitch == StitchInit /\ RouterIdle /\ ClassifierIdle /\ HashIdle /\ DbIdle /\ ExtraIdle
SpecStitch == InitStitch /\ [][StitchNext]_vars

InitParse == ParseInit /\ RouterIdle /\ ClassifierIdle /\ HashIdle /\ DbIdle /\ ExtraIdle
SpecParse == InitParse /\ [][ParseNext]_vars

(***************************************************************************)
(* Claims about the stitcher and the parser                                *)
(***************************************************************************)
\* the header matches found anywhere in a trimmed line
HeadersIn(t) == ReFindIter(RX_HEADER_ANY, t)

\* a trimmed line that is one header line and nothing else
SingleHeader(t) == IsHeaderLine(t) /\ Len(HeadersIn(t)) = 1

\* a trimmed line made only of dashes, underscores or dots
PunctOnly(t) == ReFullMatch(RX_PUNCT, t)

\* a trimmed, non-blank line that holds no header
NonHeader(t) == t # "" /\ HeadersIn(t) = <<>>

\* the step of the stitcher on a raw line that is a header line or a
\* continuation line, continuation lines being those that satisfy Cont
StitchMachineStep(Cont(_)) ==
    (ppc = "stitch" /\ si' = si + 1) =>
        LET t == Strip(lines[si])
        IN  /\ SingleHeader(t) => out' = Append(out, t)
            /\ (Cont(t) /\ out # <<>>) =>
                   out' = [out EXCEPT ![Len(out)] = out[Len(out)] \o " " \o t]

\* a header line followed only by continuation lines comes out as one line,
\* the trimmed lines joined by single blanks
StitchOneLine(Cont(_)) ==
    (/\ ppc = "stitched"
     /\ Len(lines) >= 1
     /\ SingleHeader(Strip(lines[1]))
     /\ \A i \in 2..Len(lines) : Cont(Strip(lines[i])))
    => out = <<Join([i \in 1..Len(lines) |-> Strip(lines[i])], " ")>>

AmendedCont(t) == NonHeader(t) /\ ~PunctOnly(t)

\* C4 as stated: every trimmed non-blank line without a header is appended, after
\* one blank, to the most recent logical line, so a header line followed by such
\* lines yields their space-joined concatenation.
C4_Original == [][StitchMachineStep(NonHeader)]_vars /\ [](StitchOneLine(NonHeader))

\* C4 (amended): lines made only of dashes, underscores or dots are skipped like
\* blank lines; a header line starts a new logical line and every other line without
\* a header is appended, after one blank, to the most recent logical line, so a header
\* line followed by n such lines yields one line, their space-joined concatenation.
C4_StitchMachine == [][StitchMachineStep(AmendedCont)]_vars /\ [](StitchOneLine(AmendedCont))

\* the header "Day 5, 10:00:00: Your Behemoth Gate" and two continuation lines were
\* stitched into one line
C4_Witness ==
    /\ ppc = "stitched"
    /\ lines = <<"Day 5, 10:00:00: Your Behemoth Gate", "was destroyed by Grief!", "  - Lvl 20  ">>
    /\ out = <<"Day 5, 10:00:00: Your Behemoth Gate was destroyed by Grief! - Lvl 20">>

\* the j-th header-anchored segment of the trimmed line t
SegmentAt(t, j) ==
    LET ms == HeadersIn(t)
    IN  Strip(Slice(t, ms[j][1], IF j < Len(ms) THEN ms[j + 1][1] ELSE Len(t) + 1))

\* the text of t before its first header
PrefixOf(t) == Strip(Slice(t, 1, HeadersIn(t)[1][1]))

\* the step of the stitcher on a raw line with k >= 1 headers: k header lines are
\* appended, one per segment; startsLine tells whether a text before the first
\* header may open a logical line of its own when none precedes it
StitchSplitStep(startsLine) ==
    (ppc = "stitch" /\ si' = si + 1 /\ HeadersIn(Strip(lines[si])) # <<>>) =>
        LET t == Strip(lines[si])
            k == Len(HeadersIn(t))
            pre == PrefixOf(t)
            own == startsLine /\ pre # "" /\ out = <<>>
            n == Len(out) + (IF own THEN 1 ELSE 0)
        IN  /\ Len(out') = n + k
            /\ \A j \in 1..k : out'[n + j] = SegmentAt(t, j) /\ IsHeaderLine(out'[n + j])
            /\ \A j \in 1..(Len(out) - 1) : out'[j] = out[j]
            /\ own => out'[1] = pre
            /\ out # <<>> =>
                 out'[Len(out)] = (IF pre = "" THEN out[Len(out)] ELSE out[Len(out)] \o " " \o pre)

\* C5 as stated: the text before the first header never starts a logical line.
C5_Original == [][StitchSplitStep(FALSE)]_vars

\* C5 (amended): a raw line with k >= 1 headers yields k header-anchored lines, each
\* from its header to the next header or the end; the text before the first header
\* is appended to the preceding logical line, and starts a logical line of its own
\* only when no logical line precedes it.
C5_SplitGluedHeaders == [][StitchSplitStep(TRUE)]_vars

\* a line with text before its header and a line with three headers were stitched
C5_Witness ==
    /\ ppc = "stitched"
    /\ lines = <<"Day 5, 10:00:00: Your Behemoth Gate", "tail Day 7, 1:1 C",
                 "Dav 8 2:2:22 x Doy 9,3:3 y Day 10 4:4">>
    /\ out = <<"Day 5, 10:00:00: Your Behemoth Gate tail", "Day 7, 1:1 C",
               "Dav 8 2:2:22 x", "Doy 9,3:3 y", "Day 10 4:4">>

\* a line that matches the header pattern with a day number that is not positive
ZeroDayLine(l) ==
    LET m == HeaderMatch(Strip(l))
    IN  m # <<>> /\ StrToNat(Group(Strip(l), m, GDay), 0) <= 0

\* C6: every event of parse_header_lines has ark_day > 0, and the call returns what
\* it returns for the same list without its header lines of non-positive day.
C6_PositiveDays ==
    /\ \A i \in 1..Len(events) : events[i].ark_day > 0
    /\ ppc = "parsed" =>
         events = parse_header_lines(SelectSeq(lines, LAMBDA l : ~ZeroDayLine(l)))

\* a call with a day-0 header line and another header line returned the other event
C6_Witness ==
    /\ ppc = "parsed"
    /\ Len(lines) = 2
    /\ ZeroDayLine(lines[1])
    /\ ~ZeroDayLine(lines[2])
    /\ Len(events) = 1
    /\ events[1].ark_day = 12

(***************************************************************************)
(* Claims about the classifier                                             *)
(***************************************************************************)
Severities == {"INFO", "WARNING", "SUCCESS", "CRITICAL"}

\* The tags classify_message can return (classify.py 176-394)
Categories ==
    {"AUTO_DECAY_DESTROYED", "ANTIMESH_DESTROYED", "TEK_TELEPORTER_PRIVACY_CHANGED",
     "ORP_PREVENTED", "CRYOPOD_RELEASED", "BIRTH_HATCHED", "TAME_TAMED", "TAME_CLAIMED",
     "TAME_STARVED", "TAME_FROZE", "TAME_UNCLAIMED", "UPLOADED", "DOWNLOADED", "TRANSFERRED",
     "TRIBE_MEMBER_ADDED", "TRIBE_MEMBER_LEFT", "TRIBE_MEMBER_KICKED", "TRIBE_RANK_CHANGED",
     "TRIBE_RENAMED", "TRIBE_MEMBER_REMOVED", "TRIBE_OWNERSHIP_CHANGED",
     "STRUCTURE_DEMOLISHED", "ENEMY_STRUCTURE_DESTROYED", "STRUCTURE_DESTROYED",
     "TRIBEMEMBER_WAS_KILLED", "TAME_DIED", "TRIBE_KILLED_PLAYER", "TRIBE_KILLED_CREATURE",
     "CRYOPOD_DEATH", "UNKNOWN"}

\* The message reaches the fallback of classify_message
MatchesNoRule(msg, penv) == RuleReached(msg, penv) = {NoRule}

\* C7: whatever the message, classify_message returns a triple whose severity is one
\* of INFO, WARNING, SUCCESS, CRITICAL, whose category is one of the fixed tags and
\* whose actor is a non-empty string; a message that matches no rule gives exactly
\* (UNKNOWN, INFO, "Environment").
C7_ClassifyMessageTotal ==
    cpc = "message" =>
        /\ cres.severity \in Severities
        /\ cres.category \in Categories
        /\ cres.actor # ""
        /\ MatchesNoRule(cmsg, cenv) => cres = Triple("UNKNOWN", "INFO", "Environment")

(***************************************************************************)
(* Claims about the event hash and the event store                         *)
(***************************************************************************)
\* The normalisation the claim names: trim and lower-case of server and tribe,
\* upper-case of category, whitespace-collapse and lower-case of message
StatedNorm(a) ==
    [server |-> StrLower(Strip(a.server)), tribe |-> StrLower(Strip(a.tribe)),
     ark_day |-> a.ark_day, ark_time |-> a.ark_time, category |-> StrUpper(a.category),
     message |-> StrLower(NormSpaces(a.message))]

BothHashed == hres # <<>> /\ hres[1] # "" /\ hres[2] # ""

\* C8: compute_event_hash depends on its arguments only, two calls whose arguments
\* are equal after the stated normalisation return the same hash, and two calls whose
\* normalised arguments differ in the message only return different hashes.
C8_HashOfNormalisedInputs ==
    /\ \A k \in 1..Len(hres) : hres[k] # "" => hres[k] = compute_event_hash(hargs[k])
    /\ BothHashed =>
          /\ StatedNorm(hargs[1]) = StatedNorm(hargs[2]) => hres[1] = hres[2]
          /\ (/\ StatedNorm(hargs[1]).message # StatedNorm(hargs[2]).message
              /\ [StatedNorm(hargs[1]) EXCEPT !.message = ""]
                    = [StatedNorm(hargs[2]) EXCEPT !.message = ""])
             => hres[1] # hres[2]

\* Two calls with different arguments that are equal after normalisation returned
C8_Witness ==
    /\ BothHashed
    /\ hargs[1].message # hargs[2].message
    /\ hargs[1].server # hargs[2].server
    /\ StatedNorm(hargs[1]) = StatedNorm(hargs[2])
    /\ hres[1] = hres[2]

HasRow(tbl, tenant_id, event_hash) == \E k \in 1..Len(tbl) : tbl[k] = Row(tenant_id, event_hash)

\* C9: insert_events returns no event whose (tenant_id, event_hash) had a row before
\* the call, and it returns as many events as the call inserted rows, also for a
\* batch that holds one event_hash twice.
C9_ReturnedAreInserted ==
    \A r \in 1..Len(reqs) :
        reqs[r].pc # "insert" =>
            /\ \A k \in 1..Len(reqs[r].inserted) :
                  ~HasRow(reqs[r].before, reqs[r].tenant_id, reqs[r].inserted[k])
            /\ Len(reqs[r].inserted) = reqs[r].added

\* The requests that got event_hash back as newly inserted under tenant_id
GotBack(tenant_id, event_hash) ==
    {r \in 1..Len(reqs) : /\ reqs[r].tenant_id = tenant_id
                          /\ reqs[r].pc # "insert"
                          /\ event_hash \in Elems(reqs[r].inserted)}

\* The requests that handed event_hash of tenant_id to the alerting path
Alerters(tenant_id, event_hash) ==
    {alerts[k].req : k \in {j \in 1..Len(alerts) : /\ alerts[j].tenant_id = tenant_id
                                                    /\ alerts[j].event_hash = event_hash}}

Hashes == UNION {Elems(b) : b \in Batches}

\* C10: whatever the interleaving of the requests, a (tenant_id, event_hash) has at
\* most one row, at most one request gets it back as newly inserted and at most one
\* request hands it to the alerting path; an event_hash that had no row under the
\* tenant of a request is stored for and returned to that request (and alerted when
\* posting is on), whatever was stored under another tenant.
C10_OneRowOneAlerter ==
    /\ \A t \in Tenants, e \in Hashes :
          /\ Cardinality({k \in 1..Len(rows) : rows[k] = Row(t, e)}) <= 1
          /\ Cardinality(GotBack(t, e)) <= 1
          /\ Cardinality(Alerters(t, e)) <= 1
    /\ \A r \in 1..Len(reqs) : \A e \in Elems(reqs[r].events) :
          (_pool /\ reqs[r].pc # "insert" /\ ~HasRow(reqs[r].before, reqs[r].tenant_id, e))
          => /\ HasRow(rows, reqs[r].tenant_id, e)
             /\ r \in GotBack(reqs[r].tenant_id, e)
             /\ (reqs[r].pc = "done" /\ reqs[r].post_on) => r \in Alerters(reqs[r].tenant_id, e)

\* Two requests of one tenant submitted h1 and are done, one got it back and alerted;
\* and the same hash had been stored under the other tenant before
C10_Witness ==
    /\ Len(reqs) >= 2
    /\ \A r \in 1..2 : reqs[r].pc = "done" /\ reqs[r].tenant_id = 2 /\ reqs[r].post_on
                       /\ "h1" \in Elems(reqs[r].events)
    /\ HasRow(reqs[1].before, 1, "h1") /\ HasRow(reqs[2].before, 1, "h1")
    /\ Cardinality(GotBack(2, "h1")) = 1
    /\ Cardinality(Alerters(2, "h1")) = 1

(***************************************************************************)
(* The starved/killed pairing pass                                         *)
(***************************************************************************)
\* longest list handed to parse_header_lines in the runs of the pairing pass
MaxPairLines == 3

\* header lines of starvations, kills with and without a killer, and a bystander
PairPool ==
    {"Day 10, 01:02:03: Rex starved to death!",
     "Day 10, 01:02:03: Your Rex was killed!",
     "Day 10, 01:02:03: Your Rex was killed by Bob!",
     "Day 10, 01:02:04: Your Rex was killed!",
     "Day 10, 01:02:03: Bob joined the tribe!",
     "Day 10, 01:02:03: ... starved to death!",
     "Day 10, 01:02:03: Your ... was killed!"}

PairInit ==
    /\ lines \in ListsOver(PairPool, MaxPairLines)
    /\ si = 1
    /\ out = <<>>
    /\ events = <<>>
    /\ ppc = "parse"

InitPairing == PairInit /\ RouterIdle /\ ClassifierIdle /\ HashIdle /\ DbIdle /\ ExtraIdle
SpecPairing == InitPairing /\ [][ParseNext]_vars

\* msg ends with suffix, ignoring case
EndsWith(msg, suffix) ==
    /\ Len(msg) >= Len(suffix)
    /\ StrLower(SubSeq(msg, Len(msg) - Len(suffix) + 1, Len(msg))) = suffix

\* "<creature> starved to death": <<creature>>, or <<>> for any other message
StarvedCreature(msg) ==
    LET t == Strip(msg)
        u == IF EndsWith(t, "!") THEN SubSeq(t, 1, Len(t) - 1) ELSE t
    IN  IF EndsWith(u, " starved to death") /\ Len(u) > Len(" starved to death")
        THEN <<Strip(SubSeq(u, 1, Len(u) - Len(" starved to death")))>>
        ELSE <<>>

\* "<creature> was killed by <killer>"
KilledBy(msg) == Contains(StrLower(msg), " was killed by ")

\* an unattributed "<creature> was killed": <<creature>>, or <<>> for any other message
KilledCreature(msg) ==
    LET t == Strip(msg)
        p == FindFrom(StrLower(t), " was killed", 1)
        q == p + Len(" was killed")
    IN  IF p > 1 /\ ~Contains(StrLower(t), " was killed by")
             /\ (q > Len(t) \/ Ch(t, q) \notin WordSet)
        THEN <<Strip(SubSeq(t, 1, p - 1))>>
        ELSE <<>>

\* the creature with a leading "Your " stripped
YourStripped(c) ==
    IF Len(c) > 5 /\ StrLower(SubSeq(c, 1, 5)) = "your "
    THEN LStrip(SubSeq(c, 6, Len(c)), SpaceSet) ELSE c

\* ... and with surrounding blanks, "!" and "." stripped as well
Identity(c) == StripChars(YourStripped(c), {" ", "!", "."})

\* event e is an unattributed kill whose creature, under canonical form Canon(_),
\* starved at the same (day, time) in the list before
PairedKill(e, before, Canon(_), nonEmpty) ==
    /\ KilledCreature(e.message) # <<>>
    /\ nonEmpty => Canon(KilledCreature(e.message)[1]) # ""
    /\ \E j \in 1..Len(before) :
         /\ StarvedCreature(before[j].message) # <<>>
         /\ SameTs(before[j], e)
         /\ Canon(StarvedCreature(before[j].message)[1]) = Canon(KilledCreature(e.message)[1])

\* C11 as stated: after the pairing pass no unattributed kill remains whose creature,
\* with a leading "Your " stripped, starved at the same (day, time) in the same call.
C11_Original ==
    [][PassStarved =>
         \A i \in 1..Len(events') : ~PairedKill(events'[i], events, YourStripped, FALSE)]_vars

\* the pass removes exactly the paired kills of the list, in place
PairingPost(before, after) ==
    LET Kept(e) == ~PairedKill(e, before, Identity, TRUE)
    IN  /\ after = SelectSeq(before, Kept)
        /\ \A i \in 1..Len(before) :
             KilledBy(before[i].message) => \E k \in 1..Len(after) : after[k] = before[i]
        /\ \A i \in 1..Len(before) :
             ~Kept(before[i]) =>
                \E k \in 1..Len(after) :
                   /\ StarvedCreature(after[k].message) # <<>>
                   /\ SameTs(after[k], before[i])
                   /\ Identity(StarvedCreature(after[k].message)[1])
                        = Identity(KilledCreature(before[i].message)[1])

\* the example of the specification: one event, the starvation one
PairingExample ==
    (ppc = "parsed" /\ lines = <<"Day 10, 01:02:03: Rex starved to death!",
                                 "Day 10, 01:02:03: Your Rex was killed!">>)
    => events = <<[ark_day |-> 10, ark_time |-> "01:02:03", message |-> "Rex starved to death!",
                   raw_line |-> "Day 10, 01:02:03: Rex starved to death!"]>>

\* C11 (amended): the pairing pass drops exactly the unattributed "was killed" events
\* whose creature (leading "Your " and surrounding blanks, "!" and "." stripped) is
\* non-empty and starved at the same (day, time) in the same call, wherever the two
\* lines stand; the starvation event and every "was killed by" event are kept, and
\* the example of the specification parses to the starvation event alone.
C11_PairingPass == [][PassStarved => PairingPost(events, events')]_vars /\ []PairingExample

\* the pass dropped a kill that does not stand next to its starvation line, and kept
\* the attributed kill of the same creature
C11_Witness ==
    /\ ppc = "merge"
    /\ lines = <<"Day 10, 01:02:03: Your Rex was killed!",
                 "Day 10, 01:02:03: Your Rex was killed by Bob!",
                 "Day 10, 01:02:03: Rex starved to death!">>
    /\ Len(events) = 2
    /\ events[1].message = "Your Rex was killed by Bob!"
    /\ events[2].message = "Rex starved to death!"

(***************************************************************************)
(* The same-timestamp merge pass                                           *)
(***************************************************************************)
\* longest list handed to parse_header_lines in the runs of the merge pass
MaxMergeLines == 3

\* header lines with a truncated message, a wrap continuation, no message, a whole
\* message with and without an action keyword, and a continuation at another time
MergePool ==
    {"Day 7, 05:05:05: Your Rex",
     "Day 7, 05:05:05: - Lvl 5 (Rex) was killed!",
     "Day 7, 05:05:05",
     "Day 7, 05:05:05: Your Thatch Wall was destroyed by Human!",
     "Day 7, 05:05:05: Bob was promoted to a Tribe Admin by Al",
     "Day 7, 05:05:06: (Tribe of Bob)"}

MergeInit ==
    /\ lines \in ListsOver(MergePool, MaxMergeLines)
    /\ si = 1
    /\ out = <<>>
    /\ events = <<>>
    /\ ppc = "parse"

InitMerging == MergeInit /\ RouterIdle /\ ClassifierIdle /\ HashIdle /\ DbIdle /\ ExtraIdle
SpecMerging == InitMerging /\ [][ParseNext]_vars

\* C12 as stated, on a list of two events: same (day, time) and a fragment followed
\* by anything, or anything followed by a continuation, give one event whose message
\* is the earlier message, a space and the later message.
C12_Original ==
    [][(PassMerge /\ Len(events) = 2) =>
         LET a == events[1]
             b == events[2]
         IN  (/\ a.ark_day = b.ark_day
              /\ a.ark_time = b.ark_time
              /\ (_looks_like_fragment(a.message) \/ _looks_like_continuation(b.message)))
             => /\ Len(events') = 1
                /\ events'[1].message = a.message \o " " \o b.message]_vars

\* (day, time, message) of an event
Stamped(e) == [ark_day |-> e.ark_day, ark_time |-> e.ark_time, message |-> e.message]

RECURSIVE MergeOutcomes(_, _)
\* the lists the merge pass may return for evs, acc being the events already emitted:
\* an event at another (day, time) than the last emitted one is emitted as it is; at
\* the same (day, time), an event without message is dropped, a fragment before it or
\* a continuation in it forces the merge, and otherwise both outcomes are allowed
MergeOutcomes(acc, evs) ==
    IF evs = <<>> THEN {acc}
    ELSE LET e == Head(evs)
             prev == acc[Len(acc)]
             text == Strip(prev.message \o " " \o e.message)
             joined == [acc EXCEPT ![Len(acc)] = [prev EXCEPT !.message = text]]
         IN  IF acc = <<>> THEN MergeOutcomes(<<e>>, Tail(evs))
             ELSE IF ~(prev.ark_day = e.ark_day /\ prev.ark_time = e.ark_time)
                  THEN MergeOutcomes(Append(acc, e), Tail(evs))
             ELSE IF e.message = "" THEN MergeOutcomes(acc, Tail(evs))
             ELSE IF _looks_like_fragment(prev.message) \/ _looks_like_continuation(e.message)
                  THEN MergeOutcomes(joined, Tail(evs))
             ELSE MergeOutcomes(joined, Tail(evs)) \cup MergeOutcomes(Append(acc, e), Tail(evs))

StampedAll(es) == [i \in 1..Len(es) |-> Stamped(es[i])]

\* C12 (amended): the merge pass goes through the events in order; an event whose
\* (day, time) differs from that of the last emitted event is emitted unchanged; at
\* the same (day, time) an event with an empty message is dropped, and when the last
\* emitted message looks like a fragment or the event's message looks like a
\* continuation the two become one event whose message is the earlier message, a
\* space and the later message, trimmed; the pass never reorders events or increases
\* their number.
C12_MergePass ==
    [][PassMerge =>
         /\ StampedAll(events') \in MergeOutcomes(<<>>, StampedAll(events))
         /\ Len(events') <= Len(events)]_vars

\* a truncated message, its continuation and a line at another time: two events
C12_Witness ==
    /\ ppc = "noise"
    /\ lines = <<"Day 7, 05:05:05: Your Rex", "Day 7, 05:05:05: - Lvl 5 (Rex) was killed!",
                 "Day 7, 05:05:06: (Tribe of Bob)">>
    /\ Len(events) = 2
    /\ events[1].message = "Your Rex - Lvl 5 (Rex) was killed!"
    /\ events[2].message = "(Tribe of Bob)"

(***************************************************************************)
(* The noise pass                                                          *)
(***************************************************************************)
\* longest list handed to parse_header_lines in the runs of the noise pass
MaxNoiseLines == 2

\* header lines without message, with punctuation only, with a bare time, with a
\* time whose minute has one digit, and with a whole message
NoisePool ==
    {"Day 7, 05:05:05",
     "Day 7, 05:05:05: ...",
     "Day 7, 05:05:06: -_-",
     "Day 7, 05:05:07: 05:05",
     "Day 7, 05:05:08: 1.23,45",
     "Day 7, 05:05:09: 5:5",
     "Day 7, 05:05:05: Your Thatch Wall was destroyed by Human!"}

NoiseInit ==
    /\ lines \in ListsOver(NoisePool, MaxNoiseLines)
    /\ si = 1
    /\ out = <<>>
    /\ events = <<>>
    /\ ppc = "parse"

InitNoise == NoiseInit /\ RouterIdle /\ ClassifierIdle /\ HashIdle /\ DbIdle /\ ExtraIdle
SpecNoise == InitNoise /\ [][ParseNext]_vars

IsDigits(u) == u # "" /\ \A i \in 1..Len(u) : Ch(u, i) \in DigitSet

\* a bare time: one or two digits, then once or twice a separator and two digits
TimeToken(t) ==
    \E h \in 1..2 :
       /\ Len(t) \in {h + 3, h + 6}
       /\ IsDigits(SubSeq(t, 1, h))
       /\ Ch(t, h + 1) \in {":", ".", ","}
       /\ IsDigits(SubSeq(t, h + 2, h + 3))
       /\ Len(t) = h + 6 => (Ch(t, h + 4) \in {":", ".", ","} /\ IsDigits(SubSeq(t, h + 5, h + 6)))

\* a message that is empty, made only of dashes, underscores and dots, or a bare time
NoiseText(msg) ==
    LET t == Strip(msg)
    IN  \/ t = ""
        \/ \A i \in 1..Len(t) : Ch(t, i) \in {"-", "_", "."}
        \/ TimeToken(t)

\* C13: the noise pass drops exactly the events whose message is empty, punctuation
\* only or a bare time-like token, and from then on (the pruning pass included) no
\* event of the call has such a message.
C13_NoNoiseReturned ==
    /\ [][PassNoise => events' = SelectSeq(events, LAMBDA e : ~NoiseText(e.message))]_vars
    /\ [](ppc \in {"prune", "parsed"} => \A i \in 1..Len(events) : ~NoiseText(events[i].message))

\* a call with a bare-time line and a whole line returned the whole event alone
C13_Witness ==
    /\ ppc = "parsed"
    /\ lines = <<"Day 7, 05:05:07: 05:05",
                 "Day 7, 05:05:05: Your Thatch Wall was destroyed by Human!">>
    /\ Len(events) = 1
    /\ events[1].message = "Your Thatch Wall was destroyed by Human!"

(***************************************************************************)
(* The pruning pass                                                        *)
(***************************************************************************)
\* most message lines handed to parse_header_lines in the runs of the pruning pass
MaxPruneLines == 3

\* header lines whose messages are prefixes of one another, with and without an
\* action keyword, truncated or whole, at one time and at another
PrunePool ==
    {"Day 7, 05:05:05: Your",
     "Day 7, 05:05:05: Your Rex",
     "Day 7, 05:05:05: Your Rex - Lvl 5 (Rex) was killed!",
     "Day 7, 05:05:07: Your Rex",
     "Day 7, 05:05:05: Bob was promoted to a Tribe Admin",
     "Day 7, 05:05:05: Bob was promoted to a Tribe Admin by Al"}

\* a line at another time which the noise pass removes
NoiseLine == "Day 7, 05:05:06: 05:05"

RECURSIVE Weave(_, _)
\* xs, with the noise line between consecutive lines when sep holds
Weave(xs, sep) ==
    IF Len(xs) <= 1 \/ ~sep THEN xs
    ELSE <<Head(xs), NoiseLine>> \o Weave(Tail(xs), sep)

PruneInit ==
    /\ lines \in {Weave(xs, sep) : xs \in ListsOver(PrunePool, MaxPruneLines), sep \in BOOLEAN}
    /\ si = 1
    /\ out = <<>>
    /\ events = <<>>
    /\ ppc = "parse"

InitPruning == PruneInit /\ RouterIdle /\ ClassifierIdle /\ HashIdle /\ DbIdle /\ ExtraIdle
SpecPruning == InitPruning /\ [][ParseNext]_vars

RECURSIVE Unquoted(_)
\* t without its single and double quotes
Unquoted(t) ==
    IF t = "" THEN ""
    ELSE IF Head(t) \in {"\"", "'"} THEN Unquoted(Tail(t))
    ELSE Head(t) \o Unquoted(Tail(t))

\* lower-cased, whitespace-collapsed, quotes removed
Normalized(msg) == Unquoted(NormSpaces(StrLower(msg)))

\* a is a strict substring of b
StrictSubstring(a, b) ==
    a # b /\ \E i \in 1..(Len(b) - Len(a) + 1) : SubSeq(b, i, i + Len(a) - 1) = a

\* events[i] and events[i + 1] are a pair of the statement
StatedPair(es, i) ==
    /\ i + 1 <= Len(es)
    /\ es[i].ark_day = es[i + 1].ark_day
    /\ es[i].ark_time = es[i + 1].ark_time
    /\ StrictSubstring(Normalized(es[i].message), Normalized(es[i + 1].message))
    /\ ~_has_action_keywords(es[i].message)

\* C14 as stated, on a list of two events: the earlier event of a pair is dropped and
\* the later one kept.
C14_Original ==
    [][(PassPrune /\ Len(events) = 2 /\ StatedPair(events, 1)) => events' = <<events[2]>>]_vars

\* the earlier event of a pair is dropped when, moreover, its normalized message is
\* not empty and its message looks like a truncated fragment
PrunedAt(es, i) ==
    /\ StatedPair(es, i)
    /\ Normalized(es[i].message) # ""
    /\ _looks_like_fragment(es[i].message)

\* the events of es that are not dropped, in order
Unpruned(es) ==
    LET keep == {i \in 1..Len(es) : ~PrunedAt(es, i)}
        Nth(k) == CHOOSE i \in keep : Cardinality({j \in keep : j < i}) = k - 1
    IN  [k \in 1..Cardinality(keep) |-> es[Nth(k)]]

\* C14 (amended): the pruning pass drops exactly the events that are followed by an
\* event of the same (day, time), whose non-empty normalized message is a strict
\* substring of the follower's, which contain no action keyword and which look like a
\* truncated fragment; the other events are kept in order, so an event whose
\* successor has another (day, time) is never dropped and the later event of a pair
\* is dropped only as the earlier event of the next pair.
C14_PrunePass == [][PassPrune => events' = Unpruned(events)]_vars

ChainLines ==
    <<"Day 7, 05:05:05: Your", NoiseLine, "Day 7, 05:05:05: Your Rex", NoiseLine,
      "Day 7, 05:05:05: Your Rex - Lvl 5 (Rex) was killed!">>

\* three events at one time, each a fragment contained in the next, reached the
\* pruning pass and only the last was returned
C14_Witness ==
    /\ ppc = "parsed"
    /\ lines = ChainLines
    /\ Len(events) = 1
    /\ events[1].message = "Your Rex - Lvl 5 (Rex) was killed!"

(***************************************************************************)
(* Header lines of every tolerated spelling                                *)
(***************************************************************************)
\* longest list handed to parse_header_lines in the runs over header spellings
MaxHeaderLines == 2

\* header lines with and without seconds, comma and colon, with components out of
\* range, three-digit seconds, a padded day, messages that begin with a separator
\* or a number, and lines that give no event
HeaderPool ==
    {"Day 12,08:15:30 Your Thatch Wall was destroyed by Human!",
     "Dav 000012 8.15 Bob joined the tribe!",
     "doy/7 25:61:122 Your Rex was killed by Bob",
     "Day 7, 05:05:05: - Lvl 5 (Rex) was killed by Bob",
     "Day 7, 05:05:05:: 12:30 was the time of the raid",
     "Day 3, 1:2:3 eggs hatched",
     "Day 9 4:4.199 apples were downloaded",
     "Day 9 99:99:99 Bob left the tribe!",
     "Day 0, 01:00:00: zero day",
     "Day 7, 05:05:05: 05:05"}

HeaderInit ==
    /\ lines \in ListsOver(HeaderPool, MaxHeaderLines)
    /\ si = 1
    /\ out = <<>>
    /\ events = <<>>
    /\ ppc = "parse"

InitHeader == HeaderInit /\ RouterIdle /\ ClassifierIdle /\ HashIdle /\ DbIdle /\ ExtraIdle
SpecHeader == InitHeader /\ [][ParseNext]_vars

\* "Day <day>, <time>: <message>"
Rebuilt(e) == "Day " \o NatToStr(e.ark_day) \o ", " \o e.ark_time \o ": " \o e.message

\* C15: for every event that parse_header_lines returns, parsing the string
\* "Day <day>, <time>: <message>" rebuilt from it returns exactly one event, with
\* the same day, time and message.
C15_ParseRebuiltIsSame ==
    ppc = "parsed" =>
       \A i \in 1..Len(events) :
          StampedAll(parse_header_lines(<<Rebuilt(events[i])>>)) = <<Stamped(events[i])>>

\* a single line in a loose spelling was parsed to an event whose rebuilt string
\* differs from the line
C15_Witness ==
    /\ ppc = "parsed"
    /\ lines = <<"Dav 000012 8.15 Bob joined the tribe!">>
    /\ Len(events) = 1
    /\ Rebuilt(events[1]) = "Day 12, 08:15:00: Bob joined the tribe!"

\* the value of lo..hi nearest to v
Nearest(v, lo, hi) ==
    CHOOSE x \in lo..hi : \A y \in lo..hi :
       (IF x > v THEN x - v ELSE v - x) <= (IF y > v THEN y - v ELSE v - y)

RECURSIVE Number(_)
\* the number written by a string of digits
Number(u) ==
    IF u = "" THEN 0
    ELSE 10 * Number(SubSeq(u, 1, Len(u) - 1))
         + (CHOOSE d \in 0..9 : Ch(DIGITS, d + 1) = Ch(u, Len(u)))

\* v in 0..99 written with two digits
TwoDigits(v) == Ch(DIGITS, (v \div 10) + 1) \o Ch(DIGITS, (v % 10) + 1)

\* HH:MM:SS as the statement derives it from the hour, minute and seconds fields of
\* the header (seconds = "" when the field is missing)
ClampedTime(hour, minute, seconds) ==
    LET sec == IF Len(seconds) = 3 THEN SubSeq(seconds, 2, 3) ELSE seconds
    IN  TwoDigits(Nearest(Number(hour), 0, 23)) \o ":"
        \o TwoDigits(Nearest(Number(minute), 0, 59)) \o ":"
        \o TwoDigits(IF seconds = "" THEN 0 ELSE Nearest(Number(sec), 0, 59))

\* t reads HH:MM:SS with hour in 0..23, minute and second in 0..59
WellFormedTime(t) ==
    /\ Len(t) = 8
    /\ \A i \in {1, 2, 4, 5, 7, 8} : Ch(t, i) \in DigitSet
    /\ Ch(t, 3) = ":" /\ Ch(t, 6) = ":"
    /\ Number(SubSeq(t, 1, 2)) \in 0..23
    /\ Number(SubSeq(t, 4, 5)) \in 0..59
    /\ Number(SubSeq(t, 7, 8)) \in 0..59

\* the time of the event that the loop appends for a header line
TimeOfLine(line) ==
    LET t == Strip(line)
        m == HeaderMatch(t)
    IN  ClampedTime(Group(t, m, GHour), Group(t, m, GMinute),
                    TrailingDigits(Group(t, m, GSecond)))

\* C16: every event of parse_header_lines has a time HH:MM:SS within range, and the
\* event appended for a line carries the line's hour and minute clamped to 0..23 and
\* 0..59 and its seconds clamped to 0..59 after a three-digit field was cut to its
\* last two digits, 00 when the line has no seconds field.
C16_TimeClamped ==
    /\ [](\A i \in 1..Len(events) : WellFormedTime(events[i].ark_time))
    /\ [][(ParseStep /\ Len(events') > Len(events)) =>
            events'[Len(events')].ark_time = TimeOfLine(lines[si])]_vars

\* lines with every component out of range, with three-digit seconds and without
\* seconds were parsed
C16_Witness ==
    /\ ppc = "parsed"
    /\ lines = <<"Day 9 99:99:99 Bob left the tribe!", "Day 9 4:4.199 apples were downloaded">>
    /\ Len(events) = 2
    /\ events[1].ark_time = "23:59:59"
    /\ events[2].ark_time = "04:04:59"

(***************************************************************************)
(* api_main.py ingest_log_line: one submitted line, stitched, parsed and   *)
(* classified                                                              *)
(***************************************************************************)
ThatchLine == "Day 12,08:15:30 Your Thatch Wall was destroyed by Human!"

LogLinePool ==
    {ThatchLine,
     "  Day 12,08:15:30 Your Thatch Wall was destroyed by Human!  ",
     "Dav 8 2:2:22 Bob joined the tribe!",
     "Day 7, 05:05:05: Your Rex - Lvl 5 (Rex) starved to death!",
     "Day 9, 4:4  Bob  was promoted to a Tribe Admin",
     "Day 5, 10:00:00: Your Tek Turret was destroyed!",
     "Day 6, 01:02:03: A Day 6, 01:02:04: B",
     "Day 0, 01:00:00: zero day",
     "Day 7, 05:05:05: 05:05",
     "Day 7, 05:05:05",
     "Your Rex was killed!",
     "..."}

\* line: str = Form(...); stitched = stitch_wrapped_lines([line])
LogLineInit ==
    /\ lines \in {<<l>> : l \in LogLinePool}
    /\ si = 1
    /\ out = <<>>
    /\ events = <<>>
    /\ ppc = "stitch"
    /\ cmsg = ""
    /\ cenv \in ClassifyEnvs
    /\ cres = <<>>
    /\ cpc = "idle"

\* header_lines = parse_header_lines(stitched): the parser is entered on the
\* stitched list
LogLineParse ==
    /\ ppc = "stitched"
    /\ lines' = out
    /\ si' = 1
    /\ events' = <<>>
    /\ ppc' = "parse"
    /\ UNCHANGED out
    /\ UNCHANGED NotParser

\* if not header_lines: return {"ok": False, "error": "no_header"}
LogLineNoHeader ==
    /\ ppc = "parsed"
    /\ cpc = "idle"
    /\ events = <<>>
    /\ cpc' = "no_header"
    /\ UNCHANGED <<cmsg, cenv, cres>>
    /\ UNCHANGED NotClassifier

\* for h in header_lines: events.append(classify_event(server or "unknown", ...))
LogLineClassify ==
    /\ ppc = "parsed"
    /\ cpc = "idle"
    /\ events # <<>>
    /\ \E server \in {EventServer, ""} :
          cres' = [i \in 1..Len(events) |->
                      classify_event(Or(server, "unknown"), EventTribe, events[i].ark_day,
                                     events[i].ark_time, events[i].message,
                                     events[i].raw_line, cenv)]
    /\ cpc' = "events"
    /\ UNCHANGED <<cmsg, cenv>>
    /\ UNCHANGED NotClassifier

LogLineNext ==
    \/ StitchStep \/ StitchReturn \/ LogLineParse
    \/ ParseStep \/ PassStarved \/ PassMerge \/ PassNoise \/ PassPrune
    \/ LogLineNoHeader \/ LogLineClassify

InitLogLine == LogLineInit /\ RouterIdle /\ HashIdle /\ DbIdle /\ ExtraIdle
SpecLogLine == InitLogLine /\ [][LogLineNext]_vars

\* the line matches the header pattern with a positive day, holds no further
\* header and its message is not noise
SingleHeaderLine(ls) ==
    LET line == ls[1]
        m == HeaderMatch(line)
    IN  /\ Len(ls) = 1
        /\ m # <<>>
        /\ Number(Group(line, m, GDay)) > 0
        /\ Len(ReFindIter(RX_HEADER_ANY, line)) <= 1
        /\ ~NoiseText(Group(line, m, GMsg))

\* the classification stated for the Thatch Wall line
ThatchResult(e) ==
    /\ e.ark_day = 12
    /\ e.ark_time = "08:15:30"
    /\ e.message = "Your Thatch Wall was destroyed by Human!"
    /\ e.category = "STRUCTURE_DESTROYED"
    /\ e.severity = "CRITICAL"
    /\ e.actor = "Human"

LineEvent(line) ==
    LET t == Strip(line)
        m == HeaderMatch(t)
    IN  [ark_day |-> Number(Group(t, m, GDay)), ark_time |-> TimeOfLine(t),
         message |-> Strip(Group(t, m, GMsg))]

OwnScoreAccepts(c) ==
    \/ c.header_hits >= accept_hits
    \/ c.critical_hits >= 1
    \/ FracGE(c.mean_conf, [num |-> accept_conf, den |-> 1])

\* C18: in fast mode no further variant is attempted after the first attempt whose
\* own score has header_hits at least the configured minimum, or critical_hits at
\* least one, or a mean confidence at least the configured minimum.
C18_FastStopsOnOwnScore ==
    [][(Attempt /\ env.fast /\ Len(candidates') > Len(candidates)
          /\ OwnScoreAccepts(candidates'[Len(candidates')])) => rpc' # "loop"]_vars

(***************************************************************************)
(* ocr/router.py extract_text: the variants of a fast run                  *)
(***************************************************************************)
\* a comes before b in the fixed preference order, names outside the list last
Preferred(a, b) ==
    \E i \in 1..Len(preferred) :
       /\ preferred[i] = a
       /\ \A j \in 1..i : preferred[j] # b

\* max(1, OCR_MAX_VARIANTS_FAST)
FastCap == IF env.try_max > 1 THEN env.try_max ELSE 1

\* the number of variants the loop has run the engine on
Attempted == log.calls - log.merge_calls

C19_WitnessFloor ==
    /\ rpc = "done"
    /\ env.fast
    /\ env.try_max = 0
    /\ Attempted = 1

(***************************************************************************)
(* ocr/router.py extract_text: what a merge pass appends                   *)
(***************************************************************************)
\* new is old followed by lines that match the header pattern, reach min_conf and
\* differ in their fuzzy event key from every line before them
AppendedOnly(old, new, min_conf) ==
    /\ Len(new) >= Len(old)
    /\ SubSeq(new, 1, Len(old)) = old
    /\ Len(new) > Len(old) =>
          \E keys \in {[j \in 1..Len(new) |-> _fuzzy_event_key(new[j].text)]} :
             \A k \in (Len(old) + 1)..Len(new) :
                /\ IsDayHeader(new[k].text)
                /\ new[k].conf >= min_conf
                /\ \A j \in 1..(k - 1) : keys[j] # keys[k]

\* one merge pass for variant vname: lines are appended only, nothing else of the
\* selected candidate changes, and nothing is taken from the candidate's own variant
MergePassPost(vname, min_conf) ==
    /\ best # <<>>
    /\ best' # <<>>
    /\ AppendedOnly(best[1].lines, best'[1].lines, min_conf)
    /\ [best'[1] EXCEPT !.lines = best[1].lines] = best[1]
    /\ best[1].variant = vname => (best' = best /\ log' = log /\ merged' = merged)
    /\ merged' # merged => merged' = Append(merged, vname)

\* the steps of the two merge passes: MergeRedmag and MergeRbMinusG are the only
\* actions taken at these positions
FirstPass == rpc = "merge_redmag" /\ rpc' # rpc
SecondPass == rpc = "merge_rbmg" /\ rpc' # rpc

\* C20: every line a merge pass appends to the selected candidate matches the
\* tolerant header pattern, has a confidence not below the pass's minimum and a
\* fuzzy event key different from that of every line selected or appended before
\* it; a merge pass removes and alters no selected line, and takes nothing from the
\* variant that is the selected best.
C20_MergeAppends ==
    [][/\ FirstPass => MergePassPost("redmag_mask", REDMAG_MIN_CONF)
       /\ SecondPass => MergePassPost("rb_minus_g", RBMG_MIN_CONF)]_vars

\* both merge passes appended to a candidate read from the raw variant, the first
\* one after skipping a line already selected
C20_Witness ==
    /\ rpc = "finish"
    /\ merged = <<"redmag_mask", "rb_minus_g">>
    /\ best[1].variant = "raw"
    /\ Len(best[1].lines) >= 3
    /\ \E k \in 1..Len(best[1].lines) : best[1].lines[k].text = LnWall

\* the second merge pass was skipped because the selected candidate is rb_minus_g
C20_WitnessOwnVariant ==
    /\ rpc = "finish"
    /\ env.merge_rbmg
    /\ best[1].variant = "rb_minus_g"
    /\ merged = <<"redmag_mask">>

(***************************************************************************)
(* ocr/router.py extract_text: the critical-keyword requirement of the      *)
(* rb_minus_g pass                                                         *)
(***************************************************************************)
\* the lines a step appended to the selected candidate
AppendedLines == SubSeq(best'[1].lines, Len(best[1].lines) + 1, Len(best'[1].lines))

\* C21: every line the rb_minus_g pass appends to the result holds a critical
\* keyword (killed, destroyed, demolished, auto-decay, removed from the tribe); the
\* redmag_mask pass has no such requirement.
C21_RbMinusGOnlyCritical ==
    [][SecondPass =>
          \A k \in 1..Len(AppendedLines) : _is_critical_text(AppendedLines[k].text)]_vars

(***************************************************************************)
(* ocr/router.py extract_text: the result after the merge passes           *)
(***************************************************************************)
\* non-decreasing top coordinate and, for equal tops, non-decreasing left coordinate
OrderedByPosition(ls) ==
    \A i, j \in 1..Len(ls) :
       i < j => \/ ls[i].bbox[2] < ls[j].bbox[2]
                \/ (ls[i].bbox[2] = ls[j].bbox[2] /\ ls[i].bbox[1] <= ls[j].bbox[1])

\* a and b hold the same lines, each as many times
SameLines(a, b) ==
    /\ Len(a) = Len(b)
    /\ \A i \in 1..Len(a) :
          Cardinality({k \in 1..Len(a) : a[k] = a[i]}) =
          Cardinality({k \in 1..Len(b) : b[k] = a[i]})

\* a merge pass names its variant exactly when it appended a line
ContributedPost(vname) ==
    merged' = IF Len(best'[1].lines) > Len(best[1].lines) THEN Append(merged, vname)
              ELSE merged

\* the step that returns the result of a call that selected a candidate
FinishStep == rpc = "finish" /\ rpc' = "done"

FinishPost ==
    IF merged = <<>>
    THEN result' = best
    ELSE /\ Len(result') = 1
         /\ \E r \in {result'[1]} :
               /\ SameLines(r.lines, best[1].lines)
               /\ OrderedByPosition(r.lines)
               /\ r.lines_text = [i \in 1..Len(r.lines) |-> r.lines[i].text]
               /\ r.text = Join(r.lines_text, "\n")
               /\ r.merged_variants = merged
               /\ [f \in DOMAIN best[1] \ {"lines", "lines_text", "text"} |-> r[f]] =
                  [f \in DOMAIN best[1] \ {"lines", "lines_text", "text"} |-> best[1][f]]

\* C22: when a merge pass appended a line, the returned lines are ordered by top
\* and then left coordinate, lines_text and text are rebuilt in that order and
\* merged_variants names exactly the variants that contributed a line; when none
\* did, the selected candidate is returned with its lines, lines_text and text
\* unchanged.
C22_ResultAfterMerge ==
    [][/\ FirstPass => ContributedPost("redmag_mask")
       /\ SecondPass => ContributedPost("rb_minus_g")
       /\ FinishStep => FinishPost]_vars

\* a line appended by a merge pass was moved before a selected line with the same
\* top coordinate and a greater left coordinate
C22_Witness ==
    /\ rpc = "done"
    /\ merged # <<>>
    /\ Len(result[1].lines) = 2
    /\ result[1].lines[1].text = LnRex
    /\ result[1].lines[2].text = "Rex killed"
    /\ result[1].lines_text = <<LnRex, "Rex killed">>

\* a call whose merge passes ran and appended nothing returned the candidate as read
C22_WitnessUnmerged ==
    /\ rpc = "done"
    /\ merged = <<>>
    /\ log.merge_calls > 0
    /\ result # <<>>
    /\ Len(result[1].lines) = 2

(***************************************************************************)
(* ocr/engines/__init__.py: make_extractor, and the engine choice of        *)
(* extract_text                                                            *)
(***************************************************************************)
\* name is None
NoName == "<None>"

PpocrNames == {"ppocr", "rapidocr", "paddle"}

\* variant of make_extractor that refuses a name it does not know
make_extractor_Strict(name, imported) ==
    LET n == StrLower(Strip(IF name \in {NoName, ""} THEN "tesseract" ELSE name))
    IN  IF n \in PpocrNames
        THEN IF ~imported THEN [kind |-> "raise", what |-> "PPOCR engine not available"]
             ELSE [kind |-> "extractor", what |-> "PPOCRExtractor"]
        ELSE IF n = "tesseract" THEN [kind |-> "extractor", what |-> "TesseractExtractor"]
        ELSE [kind |-> "raise", what |-> "unsupported engine"]

\* make_extractor(name), PPOCRExtractor being None unless imported
make_extractor(name, imported) ==
    LET n == StrLower(Strip(IF name \in {NoName, ""} THEN "tesseract" ELSE name))
    IN  IF n \in PpocrNames
        THEN IF ~imported THEN [kind |-> "raise", what |-> "PPOCR engine not available"]
             ELSE [kind |-> "extractor", what |-> "PPOCRExtractor"]
        ELSE [kind |-> "extractor", what |-> "TesseractExtractor"]

EngineNames ==
    {NoName, "", "tesseract", " Tesseract ", "tess", "ppocr", "RapidOCR", "paddle ",
     "easyocr", "paddleocr", "auto", "none"}

EngineHints == {NoName, "auto", "tess", "PPOCR", "rapidocr", "easyocr", " paddle"}

\* hint = (engine_hint or "auto").strip().lower(); engines = [...]
HintEngines ==
    /\ epc = "hint"
    /\ ename' = EnginesFor(StrLower(Strip(IF ehint \in {NoName, ""} THEN "auto" ELSE ehint)))[1]
    /\ epc' = "call"
    /\ UNCHANGED <<ehint, eloaded, emade, elines>>
    /\ UNCHANGED NotEngine

\* ext = make_extractor(engine_name)
MakeExtractor ==
    /\ epc = "call"
    /\ emade' = <<make_extractor(ename, eloaded[1])>>
    /\ epc' = "made"
    /\ UNCHANGED <<ehint, ename, eloaded, elines>>
    /\ UNCHANGED NotEngine

\* lines = ext.run(gray_np): PPOCRExtractor imports rapidocr_onnxruntime on its
\* first run; any extractor may raise, return nothing or return lines
ExtractorRun ==
    /\ epc = "made"
    /\ emade[1].kind = "extractor"
    /\ \E o \in {"raise", "empty", "lines"} :
          /\ (emade[1].what = "PPOCRExtractor" /\ ~eloaded[2]) => o = "raise"
          /\ elines' = <<o>>
    /\ epc' = "ran"
    /\ UNCHANGED <<ehint, ename, eloaded, emade>>
    /\ UNCHANGED NotEngine

EngineInit ==
    /\ eloaded \in {<<TRUE, TRUE>>, <<TRUE, FALSE>>, <<FALSE, FALSE>>}
    /\ \/ epc = "hint" /\ ehint \in EngineHints /\ ename = ""
       \/ epc = "call" /\ ehint = "" /\ ename \in EngineNames
    /\ emade = <<>>
    /\ elines = <<>>

EngineNext == HintEngines \/ MakeExtractor \/ ExtractorRun

InitEngine ==
    /\ EngineInit /\ RouterIdle /\ ParserIdle /\ ClassifierIdle /\ HashIdle /\ DbIdle
    /\ NormIdle /\ PostIdle
SpecEngine == InitEngine /\ [][EngineNext]_vars

\* the engine a name stands for, "" when the name is none of the supported ones
NamedEngine(name) ==
    LET n == StrLower(Strip(name))
    IN  IF name \in {NoName, ""} \/ n = "tesseract" THEN "TesseractExtractor"
        ELSE IF n \in PpocrNames THEN "PPOCRExtractor"
        ELSE ""

\* C23: make_extractor raises an unsupported or unavailable engine error for every
\* name that is not a supported and available engine, and otherwise returns the
\* engine that was named, never another one.
C23_NoSilentDowngrade ==
    epc \in {"made", "ran"} =>
       IF NamedEngine(ename) = "" \/ (NamedEngine(ename) = "PPOCRExtractor" /\ ~eloaded[1])
       THEN emade[1].kind = "raise"
       ELSE emade[1] = [kind |-> "extractor", what |-> NamedEngine(ename)]

(***************************************************************************)
(* Claims about the actor and the severity of a classified message         *)
(***************************************************************************)
\* The operands of a rule's actor chain by what they hold: the explicit subject
\* (cleaned by _clean_actor) and the affected entity (cleaned by _clean_entity)
IsSubject(c) == c.clean = "actor"
IsEntity(c) == c.clean = "entity"

\* The resolution order as stated: the cleaned explicit subject if it is not
\* empty, otherwise the cleaned affected entity if it is not empty, otherwise
\* "Environment"
StatedActor(r) ==
    FirstOf(SelectSeq(r.actors, IsSubject) \o SelectSeq(r.actors, IsEntity) \o <<Environment>>)

\* C24: for every classifier rule the returned actor is the cleaned explicit
\* subject of the matched pattern if it is not empty, otherwise the cleaned name
\* of the affected entity if one was captured and is not empty, otherwise
\* "Environment"; the actor of an event built by classify_event is never empty.
C24_ActorResolution ==
    /\ cpc = "message" =>
          \A r \in RuleReached(cmsg, cenv) : r # NoRule => cres.actor = StatedActor(r)
    /\ cpc = "event" => cres.actor # ""

\* C25 as stated: every message classify_message puts in a membership category
\* (joined or added, left, kicked, removed, promoted or demoted, rank group set,
\* ownership changed, tribe renamed) gets severity INFO.
C25_Original ==
    cpc = "message" /\ cres.category \in GovernanceCategories => cres.severity = "INFO"

\* The severity the membership rules give to each of their tags
GovernanceSeverity(category) ==
    IF category = "TRIBE_MEMBER_KICKED" THEN "WARNING"
    ELSE IF category \in {"TRIBE_MEMBER_REMOVED", "TRIBE_OWNERSHIP_CHANGED"} THEN "CRITICAL"
    ELSE "INFO"

\* C25: a message put in a membership category gets INFO when a member joined,
\* was added, left, was promoted or demoted, was set to a rank group, or the tribe
\* was renamed; WARNING when a member was kicked; CRITICAL when a member was
\* removed or the tribe owner changed.
C25_GovernanceSeverity ==
    cpc = "message" /\ cres.category \in GovernanceCategories =>
        cres.severity = GovernanceSeverity(cres.category)

\* A kicked member has been classified
C25_Witness ==
    /\ cpc = "message"
    /\ cres.category = "TRIBE_MEMBER_KICKED"
    /\ cres.severity = "WARNING"

C25_WitnessRemoved ==
    cpc = "message" /\ cres.category = "TRIBE_MEMBER_REMOVED" /\ cres.severity = "CRITICAL"

C25_WitnessInfo ==
    cpc = "message" /\ cres.category = "TRIBE_RANK_CHANGED" /\ cres.severity = "INFO"

\* The name of the destroyed structure: the text of the normalised message before
\* the match of RX_DESTROYED ("<structure> was destroyed ...")
DestroyedStructure(msg) ==
    LET m == _norm_spaces(msg)
        p == ReSearch(RX_DESTROYED, m)
    IN  IF p = <<>> THEN "" ELSE Strip(Slice(m, 1, p[1]))

TieredOff == [tiered |-> Unset, crit_kw |-> Unset]

\* C26: for a message classified STRUCTURE_DESTROYED, with tiered mode off the
\* severity is CRITICAL; with tiered mode on it is CRITICAL if and only if the name
\* of the destroyed structure contains one of the configured keywords, and WARNING
\* otherwise; category and actor are the same in both modes.
C26_TieredStructureSeverity ==
    cpc = "message" /\ cres.category = "STRUCTURE_DESTROYED" =>
        /\ ~_env_bool(cenv.tiered, FALSE) => cres.severity = "CRITICAL"
        /\ _env_bool(cenv.tiered, FALSE) =>
              cres.severity =
                  IF _contains_any(DestroyedStructure(cmsg),
                                   _get_csv(cenv.crit_kw, DEFAULT_CRIT_KEYWORDS))
                  THEN "CRITICAL" ELSE "WARNING"
        /\ \E off \in {classify_message(cmsg, TieredOff)} :
              /\ off.category = cres.category
              /\ off.actor = cres.actor

C27_WitnessAbsent ==
    /\ cpc = "event"
    /\ cres.category = "TRIBE_MEMBER_ADDED"
    /\ cres.event_hash_v2 = NoHash
    /\ cres.event_hash \notin {"", NoHash}

(***************************************************************************)
(* ocr/repair/normalize.py: the repair of the text of a line               *)
(***************************************************************************)
\* The replacement of a substitution: a fixed text; a prefix followed by the group
\* \1 where the group is the last character of the match; or _lvl_fix
Const(w) == [k |-> "const", w |-> w]
LastGroup(pre) == [k |-> "last", w |-> pre]
LvlFix == [k |-> "lvl", w |-> "Lvl "]

\* str.maketrans of _lvl_fix (lines 150-152)
TransCh(c) ==
    CASE c \in {"O", "o"} -> "0"
      [] c \in {"I", "l"} -> "1"
      [] c \in {"S", "s"} -> "5"
      [] c \in {"Z", "z"} -> "2"
      [] OTHER -> c

RECURSIVE Translate(_)
Translate(t) == IF t = "" THEN "" ELSE TransCh(Head(t)) \o Translate(Tail(t))

\* what replaces the matched text mt
Expand(rep, mt) ==
    CASE rep.k = "const" -> rep.w
      [] rep.k = "last" -> rep.w \o Ch(mt, Len(mt))
      [] rep.k = "lvl" -> rep.w \o Translate(LStrip(Slice(mt, 4, Len(mt) + 1), SpaceSet))

RECURSIVE Rebuild(_, _, _, _)
\* s with each of the spans <<start, end>> replaced, from position pos on
Rebuild(s, spans, rep, pos) ==
    IF spans = <<>> THEN Slice(s, pos, Len(s) + 1)
    ELSE Slice(s, pos, spans[1][1])
         \o Expand(rep, Slice(s, spans[1][1], spans[1][2]))
         \o Rebuild(s, Tail(spans), rep, spans[1][2])

\* One substitution of a chain: IGNORECASE or not, or a digit-glue fix
SubI(xs, rep) == [t |-> "subi", xs |-> xs, rep |-> rep]
Sub(xs, rep) == [t |-> "sub", xs |-> xs, rep |-> rep]
\* (?<=\d)[cs](?=\d) -> d
Glue(cs, d) == [t |-> "glue", cs |-> cs, d |-> d]

RECURSIVE GlueFix(_, _, _, _)
\* a character of cs that stands between two digits of s becomes d
GlueFix(s, cs, d, i) ==
    IF i > Len(s) THEN ""
    ELSE (IF /\ Ch(s, i) \in cs
             /\ i > 1 /\ Ch(s, i - 1) \in DigitSet
             /\ i < Len(s) /\ Ch(s, i + 1) \in DigitSet
          THEN d ELSE Ch(s, i)) \o GlueFix(s, cs, d, i + 1)

\* rx.sub(rep, s) for one substitution
ApplySub(rule, s) ==
    IF rule.t = "glue" THEN GlueFix(s, rule.cs, rule.d, 1)
    ELSE CHOOSE r \in {Rebuild(s, sp, rule.rep, 1) :
                         sp \in {FindAllFrom(rule.xs, IF rule.t = "subi" THEN StrLower(s) ELSE s, 1)}} :
             TRUE

RECURSIVE ApplySubs(_, _)
\* for rx, rep in rules: out = rx.sub(rep, out)
ApplySubs(rules, s) ==
    IF rules = <<>> THEN s
    ELSE CHOOSE r \in {ApplySubs(Tail(rules), ApplySub(rules[1], v)) : v \in {s}} : TRUE

\* DIGIT_GLUE_FIX, DASH_FIX, SPACE_FIX (lines 68-79). The typographic dashes of
\* line 73 are outside the alphabet of the model.
RepairRules ==
    << Glue({"O"}, "0"), Glue({"l", "I"}, "1"),
       Sub(<<Ws, Lit("-"), Ws>>, Const(" - ")),
       Sub(<<Ws1>>, Const(" ")),
       Sub(<<In(SpaceSet), In({":", ";", ",", "."})>>, LastGroup("")) >>

\* _repair_text (lines 81-91). The typographic quotes of line 84 are outside the
\* alphabet of the model.
_repair_text(t) == IF t = "" THEN t ELSE Strip(ApplySubs(RepairRules, t))

\* CREATURES, STRUCTURES, VEHICLES (lines 34-37): the three name files are not in
\* the repository, so _read_list returns [] for each
CREATURES == <<>>
STRUCTURES == <<>>
VEHICLES == <<>>

\* _canon_replace (lines 93-97) for a lexicon built from no name: the pattern is
\* "$^", which matches the empty text only and is replaced by itself
_canon_replace(text, names) == text

EventWords ==
    <<"killed", "destroyed", "demolished", "tamed", "claimed", "hatched", "born", "joined",
      "left">>

\* _normalize_line_text, lines 130-154: the phrases and the level tokens
PhraseRules ==
    << SubI(<<Wb, Lit("was demolish"), Wb>>, Const("was demolished")),
       SubI(<<Wb, Lit("has demolish"), Wb>>, Const("has demolished")),
       SubI(<<Wb, Lit("was destro"), In({"y", "v"}), Lit("ed"), Wb>>, Const("was destroyed")),
       SubI(<<Wb, Lit("ki"), Rep(In({"l", "1", "i"}), 2, 2), Lit("ed"), Wb>>, Const("killed")),
       SubI(<<Wb, Lit("kllled"), Wb>>, Const("killed")),
       SubI(<<Wb, Lit("destr"), In({"0", "o"}), Lit("yed"), Wb>>, Const("destroyed")),
       SubI(<<Wb, Lit("destroved"), Wb>>, Const("destroyed")),
       SubI(<<Wb, Lit("dem"), In({"0", "o"}), Lit("lished"), Wb>>, Const("demolished")),
       SubI(<<Wb, Lit("tammed"), Wb>>, Const("tamed")),
       SubI(<<Wb, Alt(<<Lit("lvl"), Lit("1vl"), Lit("iv1"), Lit("lvi")>>), Wb>>, Const("Lvl")),
       SubI(<<Wb, Lit("lv"), In({"1", "l", "i"}), Wb>>, Const("Lvl")),
       SubI(<<Wb, Lit("lvl"), Ws, Opt(In({":", "-"})), Ws, D>>, LastGroup("Lvl ")),
       Sub(<<Wb, Lit("Lvl"), Ws1, Rep(In(DigitSet \cup {"O", "I", "l", "S", "Z"}), 1, 6), Wb>>,
           LvlFix) >>

\* _normalize_line_text, lines 156-161: the sentence ending and the blanks
NormalizeEnding(txt) ==
    LET e == IF /\ txt # "" /\ Ch(txt, Len(txt)) = "."
                /\ \E k \in 1..Len(EventWords) : Contains(StrLower(txt), EventWords[k])
             THEN Slice(txt, 1, Len(txt)) \o "!" ELSE txt
    IN  Strip(ApplySubs(<<Sub(<<Rep(In(SpaceSet), 2, 2), Ws>>, Const(" "))>>, e))

\* _normalize_line_text (lines 125-161). The typographic quotes and dashes of lines
\* 127-128 are outside the alphabet of the model.
_normalize_line_text(txt) ==
    CHOOSE r \in {NormalizeEnding(p) : p \in {ApplySubs(PhraseRules, txt)}} : TRUE

\* lines 176-181: the text normalize puts in the line it builds
NormalizeText(t) ==
    CHOOSE r \in {_normalize_line_text(
                      _canon_replace(_canon_replace(_canon_replace(a, CREATURES), STRUCTURES),
                                     VEHICLES)) : a \in {_repair_text(t)}} : TRUE

(***************************************************************************)
(* ocr/repair/normalize.py: normalize as steps, one per line of the batch  *)
(***************************************************************************)
\* A line as Python holds it: py tells the types of its fields. "ok": text is a
\* str and conf a float; "text_none": text is None; "text_bytes": text is a bytes
\* object; "conf_none": conf is None
PyLine(text, conf, x0, y0, py) ==
    [text |-> text, conf |-> conf, bbox |-> <<x0, y0, x0 + 1, y0 + 1>>, py |-> py]

\* lines 175-182 raise for the line: a bytes text that is not empty reaches
\* t.replace(str, str) in _repair_text (TypeError); float(None) at line 181
Raises(ln) == (ln.py = "text_bytes" /\ ln.text # "") \/ ln.py = "conf_none"

\* Line(text=txt, conf=float(ln.conf), bbox=ln.bbox) of line 181; txt = ln.text or ""
RepairedLine(ln) ==
    [text |-> NormalizeText(IF ln.py = "ok" THEN ln.text ELSE ""),
     conf |-> ln.conf, bbox |-> ln.bbox, py |-> "ok"]

\* The loop body without the except clause: a line whose repair raises is lost
EmitLine_DropFailed(ln) == IF Raises(ln) THEN <<>> ELSE <<RepairedLine(ln)>>

\* lines 174-188, what one iteration appends to out: the repaired line, or the
\* line itself when the repair raised (out.append(ln) of line 186 does not raise)
EmitLine(ln) == IF Raises(ln) THEN <<ln>> ELSE <<RepairedLine(ln)>>

MaxNormLines == 3

NormPool ==
    { PyLine("D 1O2: Al -Lvl 5 was ki11ed .", 50, 1, 2, "ok"),
      PyLine("bytes ki11ed", 40, 0, 5, "text_bytes"),
      PyLine("", 30, 5, 5, "text_none"),
      PyLine("x  -  y", 0, 7, 7, "conf_none"),
      PyLine("Wall was destroved.", 90, 2, 9, "ok"),
      PyLine("Bob", 80, 3, 3, "ok") }

\* if not lines: return []
NormalizeEmpty ==
    /\ npc = "call"
    /\ nlines = <<>>
    /\ npc' = "done"
    /\ UNCHANGED <<nlines, nout, ni>>
    /\ UNCHANGED NotNorm

\* for ln in lines: one iteration
NormalizeLine ==
    /\ npc = "call"
    /\ ni <= Len(nlines)
    /\ \E e \in {EmitLine(nlines[ni])} : nout' = nout \o e
    /\ ni' = ni + 1
    /\ UNCHANGED <<nlines, npc>>
    /\ UNCHANGED NotNorm

\* return out
NormalizeReturn ==
    /\ npc = "call"
    /\ nlines # <<>>
    /\ ni > Len(nlines)
    /\ npc' = "done"
    /\ UNCHANGED <<nlines, nout, ni>>
    /\ UNCHANGED NotNorm

NormInit ==
    /\ nlines \in ListsOver(NormPool, MaxNormLines)
    /\ nout = <<>>
    /\ ni = 1
    /\ npc = "call"

NormNext == NormalizeEmpty \/ NormalizeLine \/ NormalizeReturn

InitNorm ==
    /\ NormInit /\ RouterIdle /\ ParserIdle /\ ClassifierIdle /\ HashIdle /\ DbIdle
    /\ EngineIdle /\ PostIdle
SpecNorm == InitNorm /\ [][NormNext]_vars

\* C28: normalize returns exactly one output line per input line, in input order,
\* with each line's confidence and bounding box unchanged; if repairing the text of
\* one line raises, that line is emitted unmodified and the remaining lines of the
\* batch are still processed.
C28_OneLinePerInput ==
    npc = "done" =>
        /\ Len(nout) = Len(nlines)
        /\ \A k \in 1..Len(nlines) :
              IF k > Len(nout) THEN FALSE
              ELSE /\ nout[k].conf = nlines[k].conf
                   /\ nout[k].bbox = nlines[k].bbox
                   /\ Raises(nlines[k]) => nout[k] = nlines[k]
                   /\ ~Raises(nlines[k]) => nout[k] = RepairedLine(nlines[k])

\* A batch was returned in which a line whose repair raised is followed by a line
\* whose text the repair changed
C28_Witness ==
    /\ npc = "done"
    /\ Len(nout) = 3
    /\ Raises(nlines[1]) /\ nout[1] = nlines[1]
    /\ ~Raises(nlines[2]) /\ nout[2].text # nlines[2].text
    /\ nout[3].text = "Wall was destroyed!"

(***************************************************************************)
(* api_main.py _post_events_background and discord_webhook.py              *)
(* post_event_from_parsed: the role mention of a posted event              *)
(***************************************************************************)
\* Python's None for an absent form field, header or webhook
PyNone == "<None>"

\* _parse_boolish (api_main.py 34-42): "True", "False" or "None"
_parse_boolish(val) ==
    IF val = PyNone THEN "None"
    ELSE LET v == StrLower(Strip(val))
         IN  IF v \in {"1", "true", "yes", "y", "on", "enable", "enabled"} THEN "True"
             ELSE IF v \in {"0", "false", "no", "n", "off", "disable", "disabled"} THEN "False"
             ELSE "None"

\* client_ping of lines 371-373: the form field, the header when the field says nothing
ClientPing(form, header) ==
    IF _parse_boolish(form) = "None" THEN _parse_boolish(header) ELSE _parse_boolish(form)

\* The tenant policy alone (lines 60-64)
PolicyAllows(t, ev) ==
    /\ t.critical_ping_enabled
    /\ ev.severity = "CRITICAL"
    /\ (t.ping_all_critical \/ ev.category \in t.ping_categories)

\* A client flag of true forcing the mention
do_ping_ClientForces(t, ev, client_ping) ==
    IF client_ping = "False" THEN FALSE
    ELSE IF client_ping = "True" THEN TRUE
    ELSE PolicyAllows(t, ev)

\* do_ping of lines 60-66
do_ping(t, ev, client_ping) ==
    IF client_ping = "False" THEN FALSE ELSE PolicyAllows(t, ev)

\* tenant.critical_ping_role_id or settings.critical_ping_role_id (line 70)
MentionRoleId(t, st) == Or(t.critical_ping_role_id, st.critical_ping_role_id)

\* The payload of post_event_from_parsed (discord_webhook.py 54-82): content and
\* allowed_mentions.roles, with the event it is about
Payload(ev, mention_role_id, mention) ==
    [content |-> IF mention /\ mention_role_id # "" THEN "<@&" \o mention_role_id \o ">" ELSE "",
     roles |-> IF mention /\ mention_role_id # "" THEN <<mention_role_id>> ELSE <<>>,
     category |-> ev.category, severity |-> ev.severity]

MaxPostEvents == 2

PostEvents ==
    { [category |-> "TRIBEMEMBER_WAS_KILLED", severity |-> "CRITICAL"],
      [category |-> "STRUCTURE_DESTROYED", severity |-> "CRITICAL"],
      [category |-> "TAME_DIED", severity |-> "WARNING"] }

PingPolicies ==
    [critical_ping_enabled : BOOLEAN, ping_all_critical : BOOLEAN,
     ping_categories : {{}, {"TRIBEMEMBER_WAS_KILLED", "TAME_DIED"}},
     critical_ping_role_id : {"", "42"}]

\* if not inserted or webhook is None: return 0
PostNothing ==
    /\ postpc = "call"
    /\ to_post = <<>> \/ webhook = PyNone
    /\ postpc' = "done"
    /\ UNCHANGED <<tenant, settings, client, webhook, to_post, sent, posted>>
    /\ UNCHANGED NotPost

\* for ev in inserted: the loop is entered
PostBegin ==
    /\ postpc = "call"
    /\ to_post # <<>> /\ webhook # PyNone
    /\ postpc' = "loop"
    /\ UNCHANGED <<tenant, settings, client, webhook, to_post, sent, posted>>
    /\ UNCHANGED NotPost

\* One iteration for a client without a URL: post_event_from_parsed returns at once
PostSkipped ==
    /\ postpc = "loop"
    /\ to_post # <<>>
    /\ webhook = ""
    /\ posted' = posted + 1
    /\ to_post' = Tail(to_post)
    /\ UNCHANGED <<tenant, settings, client, webhook, sent, postpc>>
    /\ UNCHANGED NotPost

\* One iteration: the payload is handed to the webhook; the request succeeds, or
\* fails and the exception is logged (lines 79-80)
PostEvent ==
    /\ postpc = "loop"
    /\ to_post # <<>>
    /\ webhook # ""
    /\ sent' = Append(sent, Payload(Head(to_post), MentionRoleId(tenant, settings),
                                    do_ping(tenant, Head(to_post),
                                            ClientPing(client[1], client[2]))))
    /\ \E ok \in BOOLEAN : posted' = IF ok THEN posted + 1 ELSE posted
    /\ to_post' = Tail(to_post)
    /\ UNCHANGED <<tenant, settings, client, webhook, postpc>>
    /\ UNCHANGED NotPost

\* return posted
PostReturn ==
    /\ postpc = "loop"
    /\ to_post = <<>>
    /\ postpc' = "done"
    /\ UNCHANGED <<tenant, settings, client, webhook, to_post, sent, posted>>
    /\ UNCHANGED NotPost

PostInit ==
    /\ tenant \in PingPolicies
    /\ settings \in [critical_ping_role_id : {"", "7"}]
    /\ client \in {PyNone, "1", "off", "maybe"} \X {PyNone, "TRUE ", "0"}
    /\ webhook \in {PyNone, "", "https://discord.example/api/webhooks/1"}
    /\ to_post \in ListsOver(PostEvents, MaxPostEvents)
    /\ sent = <<>>
    /\ posted = 0
    /\ postpc = "call"

PostNext == PostNothing \/ PostBegin \/ PostSkipped \/ PostEvent \/ PostReturn

InitPost ==
    /\ PostInit /\ RouterIdle /\ ParserIdle /\ ClassifierIdle /\ HashIdle /\ DbIdle
    /\ EngineIdle /\ NormIdle
SpecPost == InitPost /\ [][PostNext]_vars

\* The payload mentions a role
Mentions(p) == p.content # "" \/ p.roles # <<>>

\* C29: a posted event carries a role mention only if the tenant has critical
\* pings enabled, the event's severity is CRITICAL, and either the tenant pings all
\* critical events or the event's category is in the tenant's ping categories; a
\* client-supplied critical_ping flag (form field or header) can suppress the
\* mention but never causes a mention the tenant policy does not allow.
C29_MentionOnlyByPolicy ==
    postpc # "idle" =>
        \A k \in 1..Len(sent) :
            /\ Mentions(sent[k]) =>
                  /\ tenant.critical_ping_enabled
                  /\ sent[k].severity = "CRITICAL"
                  /\ (tenant.ping_all_critical \/ sent[k].category \in tenant.ping_categories)
            /\ ClientPing(client[1], client[2]) = "False" => ~Mentions(sent[k])

\* An event was posted with a mention
C29_Witness ==
    /\ postpc = "done"
    /\ \E k \in 1..Len(sent) : Mentions(sent[k]) /\ sent[k].category = "TRIBEMEMBER_WAS_KILLED"
    /\ ~tenant.ping_all_critical

\* The client flag suppressed a mention the policy allows
C29_WitnessSuppressed ==
    /\ postpc = "done"
    /\ client[1] = PyNone /\ client[2] = "0"
    /\ \E k \in 1..Len(sent) : PolicyAllows(tenant, sent[k]) /\ ~Mentions(sent[k])
    /\ MentionRoleId(tenant, settings) # ""

\* The client asked for a mention the policy does not allow, and none was sent
C29_WitnessNotCaused ==
    /\ postpc = "done"
    /\ ClientPing(client[1], client[2]) = "True"
    /\ \E k \in 1..Len(sent) : sent[k].severity = "CRITICAL" /\ ~Mentions(sent[k])
    /\ ~tenant.critical_ping_enabled
    /\ MentionRoleId(tenant, settings) # ""

(***************************************************************************)
(* Claims about the number of lines the stitcher returns                   *)
(***************************************************************************)
\* The raw line is skipped by lines 97-102: blank, or dashes, underscores and dots only
SkippedLine(raw) == Strip(raw) = "" \/ ReFullMatch(RX_PUNCT, Strip(raw))

RECURSIVE HeaderSegments(_)
\* The number of header-anchored segments found in the lines that are not skipped
HeaderSegments(ls) ==
    IF ls = <<>> THEN 0
    ELSE (IF SkippedLine(Head(ls)) THEN 0 ELSE Len(HeadersIn(Strip(Head(ls)))))
         + HeaderSegments(Tail(ls))

\* The text of a line that stands before its first header (the line when it has none)
BeforeHeader(raw) ==
    LET t == Strip(raw)
        ms == HeadersIn(t)
    IN  IF ms = <<>> THEN t ELSE Strip(Slice(t, 1, ms[1][1]))

RECURSIVE TextBeforeFirstHeader(_)
\* Text that is neither blank nor punctuation only occurs before the first header
TextBeforeFirstHeader(ls) ==
    IF ls = <<>> THEN FALSE
    ELSE \/ ~SkippedLine(Head(ls)) /\ ~SkippedLine(BeforeHeader(Head(ls)))
         \/ /\ SkippedLine(Head(ls)) \/ HeadersIn(Strip(Head(ls))) = <<>>
            /\ TextBeforeFirstHeader(Tail(ls))

\* C30: each line stitch_wrapped_lines returns, except possibly the first, matches
\* the header pattern, and the number of returned lines is the number of
\* header-anchored segments found in the input, plus one if text that is neither
\* blank nor punctuation only occurs before the first header; lines that are blank
\* or made only of dashes, underscores or dots contribute nothing.
C30_StitchedLineCount ==
    ppc = "stitched" =>
        /\ \A k \in 2..Len(out) : IsHeaderLine(out[k])
        /\ Len(out) = HeaderSegments(lines) + (IF TextBeforeFirstHeader(lines) THEN 1 ELSE 0)
        /\ out = stitch_wrapped_lines(SelectSeq(lines, LAMBDA raw : ~SkippedLine(raw)))
====
